---- MODULE Spec2Model ----
(***************************************************************************)
(* A model of the kobs cluster core (pkg/api/clusters/cluster/cluster.go): *)
(* the namespace cache of a Cluster (GetNamespaces), the CRD discovery     *)
(* task (loadCRDs) and its readers (GetCRDs), the log streamer             *)
(* (StreamLogs) and the terminal session (GetTerminal).                    *)
(***************************************************************************)
EXTENDS Integers, Sequences, FiniteSets, TLC

(***************************************************************************)
(* Bounds of the model.                                                    *)
(***************************************************************************)
NumCallers == 2
MaxTtl == 2
MaxTicks == 1
MaxCalls == 2
NumReaders == 1
MaxDefs == 2
MaxSegs == 4
MaxSessionSegs == 1
MaxNameLen == 4
MaxRequests == 2
MaxPayload == 3
MaxPathLen == 5
MaxClusters == 3
MaxAttempts == 64
NumClusters == 2
MaxLoaded == 2
MaxOperations == 3
NumRequests == 2
MaxKeepAlives == 2
MaxUrls == 2

VARIABLES
    now,                \* the wall clock, time.Now()
    upstreamNamespaces, \* the namespaces the cluster's API server holds
    upstreamCalls,      \* number of Namespaces().List calls made so far
    served,             \* the lists the API server answered with, in order
    cache,              \* Cluster.cache
    cacheFrom,          \* which answer of `served` each cache field was taken from
    calls,              \* the GetNamespaces invocations, one record per caller
    crdUpstream,        \* how the API server answers the CRD list request now
    crdList,            \* the CustomResourceDefinitionList the API server holds
    load,               \* the loadCRDs goroutine: position and local variables
    crds,               \* Cluster.crds
    reads,              \* the GetCRDs invocations, one record per reader
    log,                \* the bytes of the container's log, as the API server streams them
    ctx,                \* the context StreamLogs was called with
    stream,             \* the io.ReadCloser of Stream(ctx)
    reader,             \* the bufio.Reader over the stream
    sl,                 \* the StreamLogs call: position and local variables
    written,            \* the messages written to the WebSocket connection, in order
    term,               \* the GetTerminal call: position, shell, exec stream
    termConn,           \* the WebSocket connection of the terminal session
    newCluster,         \* the NewCluster call: its name argument and what it returns
    resCall,            \* the last call of a resource operation and what it sent
    upstreamRequests,   \* the number of requests the API server has received
    getLogs,            \* the GetLogs call: the payload, the regex and what it returns
    copyCall,           \* the CopyFileFromPod or CopyFileToPod call: the path and the exec it requests
    registry,           \* clusters.Load: the configuration, the clusters built so far, the outcome
    tasksStarted,       \* the number of loadCRDs goroutines started
    process,            \* the kobs process: loading, serving or exited
    clusters,           \* the name, CRD list and namespace cache of each cluster
    opCall,             \* the last operation called on a cluster, and which call it was
    handlers,           \* the ClickHouse handler of each request
    keepAlives,         \* the keep-alive goroutine of each request
    responses,          \* what was written to the response of each request
    getFeed,            \* the RSS handler: its urls, its position, its WaitGroup, what it handed on
    parsers,            \* the goroutine started for each url
    feeds               \* the slice the goroutines append to

nsVars == <<now, upstreamNamespaces, upstreamCalls, served, cache, cacheFrom, calls>>

crdVars == <<crdUpstream, crdList, load, crds, reads>>

logVars == <<log, ctx, stream, reader, sl, written>>

termVars == <<term, termConn>>

nameVars == <<newCluster>>

resVars == <<resCall, upstreamRequests>>

apiVars == <<nameVars, resVars>>

getLogsVars == <<getLogs>>

copyVars == <<copyCall>>

registryVars == <<registry, tasksStarted, process>>

frameVars == <<clusters, opCall>>

keepAliveVars == <<handlers, keepAlives, responses>>

rssVars == <<getFeed, parsers, feeds>>

vars == <<nsVars, crdVars, logVars, termVars, apiVars, getLogsVars, copyVars, registryVars, frameVars, keepAliveVars, rssVars>>

(***************************************************************************)
(* Time.  time.Time{} (the zero value of Cache.namespacesLastFetch) lies   *)
(* further in the past than any time.Duration can reach from the present,  *)
(* so the process starts more than MaxTtl after it.                        *)
(***************************************************************************)
ZeroTime == 0
StartTime == ZeroTime + MaxTtl + 1
EndTime == StartTime + MaxTicks
Times == ZeroTime..(EndTime + 1)

Callers == 1..NumCallers
Durations == 0..MaxTtl
NamespaceLists == {<<"default">>, <<"default", "kube-system">>}

None == "none"
ListError == "list failed"

Last(s) == s[Len(s)]

(***************************************************************************)
(* Cache: the zero value a Cluster is constructed with (NewCluster does    *)
(* not set the field).                                                     *)
(***************************************************************************)
Cache == [namespaces |-> <<>>, namespacesLastFetch |-> ZeroTime]

IdleCall ==
    [pc |-> "idle", cacheDuration |-> 0, namespaces |-> <<>>, fetch |-> 0,
     result |-> <<>>, err |-> None, resultFrom |-> 0,
     t0 |-> ZeroTime, lastFetch0 |-> ZeroTime, checkedFrom |-> 0,
     callsBefore |-> 0, tReturn |-> ZeroTime]

NamespacesInit ==
    /\ now = StartTime
    /\ upstreamNamespaces \in NamespaceLists
    /\ upstreamCalls = 0
    /\ served = <<>>
    /\ cache = Cache
    /\ cacheFrom = [namespaces |-> 0, namespacesLastFetch |-> 0]
    /\ calls = [p \in Callers |-> IdleCall]

(***************************************************************************)
(* The freshness test of line 110:                                         *)
(*   c.cache.namespacesLastFetch.After(time.Now().Add(-1 * cacheDuration)) *)
(***************************************************************************)
IsFreshOffByOne(lastFetch, t, cacheDuration) == lastFetch > t - cacheDuration + 1

IsFreshInclusive(lastFetch, t, cacheDuration) == lastFetch >= t - cacheDuration

IsFresh(lastFetch, t, cacheDuration) == lastFetch > t - cacheDuration

(***************************************************************************)
(* The cache fields are read and written without a lock.  A read that is   *)
(* not ordered with a pending write of the same field by another goroutine *)
(* is a data race: it yields the old value, the new value, or a mix of the *)
(* words of the two.                                                       *)
(***************************************************************************)
Garbage == "?"

\* a slice header with the data pointer of a and the length of b; beyond the
\* end of a lies memory that holds anything
MixedSlice(a, b, beyond) == [i \in 1..Len(b) |-> IF i <= Len(a) THEN a[i] ELSE beyond]

StoringNamespaces(p) == {q \in Callers \ {p} : calls[q].pc = "store_namespaces"}

StoringLastFetch(p) == {q \in Callers \ {p} : calls[q].pc = "store_lastFetch"}

\* what the read of c.cache.namespaces at line 113 can yield: <<list, origin>>
NamespacesReads(p) ==
    {<<cache.namespaces, cacheFrom.namespaces>>}
    \cup {<<calls[q].namespaces, calls[q].fetch>> : q \in StoringNamespaces(p)}
    \cup {<<MixedSlice(cache.namespaces, calls[q].namespaces, Garbage), -1>> :
            q \in StoringNamespaces(p)}
    \cup {<<MixedSlice(calls[q].namespaces, cache.namespaces, Garbage), -1>> :
            q \in StoringNamespaces(p)}

\* what the read of c.cache.namespacesLastFetch at line 110 can yield
LastFetchReads(p) ==
    IF StoringLastFetch(p) = {}
    THEN {<<cache.namespacesLastFetch, cacheFrom.namespacesLastFetch>>}
    ELSE {<<cache.namespacesLastFetch, cacheFrom.namespacesLastFetch>>}
         \cup {<<t, -1>> : t \in Times}

(***************************************************************************)
(* GetNamespaces, lines 107-114: the call is made, the freshness of the    *)
(* cache is tested and the branch is taken.                                *)
(***************************************************************************)
Start(p, cacheDuration) ==
    /\ calls[p].pc = "idle"
    /\ \E r \in LastFetchReads(p) :
        calls' = [calls EXCEPT ![p] =
            [IdleCall EXCEPT
                !.pc = IF IsFresh(r[1], now, cacheDuration) THEN "cached" ELSE "list",
                !.cacheDuration = cacheDuration,
                !.t0 = now,
                !.lastFetch0 = cache.namespacesLastFetch,
                !.checkedFrom = r[2],
                !.callsBefore = upstreamCalls]]
    /\ UNCHANGED <<now, upstreamNamespaces, upstreamCalls, served, cache, cacheFrom, crdVars, logVars, termVars, apiVars, getLogsVars, copyVars, registryVars, frameVars, keepAliveVars, rssVars>>

\* line 113: return c.cache.namespaces, nil
ReturnCached(p) ==
    /\ calls[p].pc = "cached"
    /\ \E r \in NamespacesReads(p) :
        calls' = [calls EXCEPT ![p].pc = "done", ![p].result = r[1],
                               ![p].resultFrom = r[2], ![p].tReturn = now]
    /\ UNCHANGED <<now, upstreamNamespaces, upstreamCalls, served, cache, cacheFrom, crdVars, logVars, termVars, apiVars, getLogsVars, copyVars, registryVars, frameVars, keepAliveVars, rssVars>>

\* lines 116-119: the upstream call fails
ListFailsClearsCache(p) ==
    /\ calls[p].pc = "list"
    /\ upstreamCalls < MaxCalls
    /\ upstreamCalls' = upstreamCalls + 1
    /\ calls' = [calls EXCEPT ![p].pc = "done", ![p].err = ListError,
                              ![p].tReturn = now]
    /\ cache' = Cache
    /\ UNCHANGED <<now, upstreamNamespaces, served, cacheFrom, crdVars, logVars, termVars, apiVars, getLogsVars, copyVars, registryVars, frameVars, keepAliveVars, rssVars>>

ListFails(p) ==
    /\ calls[p].pc = "list"
    /\ upstreamCalls < MaxCalls
    /\ upstreamCalls' = upstreamCalls + 1
    /\ calls' = [calls EXCEPT ![p].pc = "done", ![p].err = ListError,
                              ![p].tReturn = now]
    /\ UNCHANGED <<now, upstreamNamespaces, served, cache, cacheFrom, crdVars, logVars, termVars, apiVars, getLogsVars, copyVars, registryVars, frameVars, keepAliveVars, rssVars>>

\* lines 116-125: the upstream call succeeds and the names are collected
ListSucceeds(p) ==
    /\ calls[p].pc = "list"
    /\ upstreamCalls < MaxCalls
    /\ upstreamCalls' = upstreamCalls + 1
    /\ served' = Append(served, upstreamNamespaces)
    /\ calls' = [calls EXCEPT ![p].pc = "store_namespaces",
                              ![p].namespaces = upstreamNamespaces,
                              ![p].fetch = Len(served) + 1]
    /\ UNCHANGED <<now, upstreamNamespaces, cache, cacheFrom, crdVars, logVars, termVars, apiVars, getLogsVars, copyVars, registryVars, frameVars, keepAliveVars, rssVars>>

\* line 128: c.cache.namespaces = namespaces
StoreNamespaces(p) ==
    /\ calls[p].pc = "store_namespaces"
    /\ cache' = [cache EXCEPT !.namespaces = calls[p].namespaces]
    /\ cacheFrom' = [cacheFrom EXCEPT !.namespaces = calls[p].fetch]
    /\ calls' = [calls EXCEPT ![p].pc = "store_lastFetch"]
    /\ UNCHANGED <<now, upstreamNamespaces, upstreamCalls, served, crdVars, logVars, termVars, apiVars, getLogsVars, copyVars, registryVars, frameVars, keepAliveVars, rssVars>>

\* lines 129-131: c.cache.namespacesLastFetch = time.Now(); return namespaces, nil
StoreLastFetch(p) ==
    /\ calls[p].pc = "store_lastFetch"
    /\ cache' = [cache EXCEPT !.namespacesLastFetch = now]
    /\ cacheFrom' = [cacheFrom EXCEPT !.namespacesLastFetch = calls[p].fetch]
    /\ calls' = [calls EXCEPT ![p].pc = "done", ![p].result = calls[p].namespaces,
                              ![p].resultFrom = calls[p].fetch, ![p].tReturn = now]
    /\ UNCHANGED <<now, upstreamNamespaces, upstreamCalls, served, crdVars, logVars, termVars, apiVars, getLogsVars, copyVars, registryVars, frameVars, keepAliveVars, rssVars>>

\* the caller takes the result; the goroutine of the request ends
Finish(p) ==
    /\ calls[p].pc = "done"
    /\ calls' = [calls EXCEPT ![p] = IdleCall]
    /\ UNCHANGED <<now, upstreamNamespaces, upstreamCalls, served, cache, cacheFrom, crdVars, logVars, termVars, apiVars, getLogsVars, copyVars, registryVars, frameVars, keepAliveVars, rssVars>>

\* the environment: time passes, namespaces are created and deleted
Tick ==
    /\ now < EndTime
    /\ now' = now + 1
    /\ UNCHANGED <<upstreamNamespaces, upstreamCalls, served, cache, cacheFrom, calls, crdVars, logVars, termVars, apiVars, getLogsVars, copyVars, registryVars, frameVars, keepAliveVars, rssVars>>

UpstreamChanges ==
    /\ \E l \in NamespaceLists \ {upstreamNamespaces} : upstreamNamespaces' = l
    /\ UNCHANGED <<now, upstreamCalls, served, cache, cacheFrom, calls, crdVars, logVars, termVars, apiVars, getLogsVars, copyVars, registryVars, frameVars, keepAliveVars, rssVars>>

AllIdle == \A q \in Callers : calls[q].pc = "idle"

\* GetNamespaces called from concurrent request handlers
NextNamespaces ==
    \/ \E p \in Callers, d \in Durations : Start(p, d)
    \/ \E p \in Callers : ReturnCached(p)
    \/ \E p \in Callers : ListFails(p)
    \/ \E p \in Callers : ListSucceeds(p)
    \/ \E p \in Callers : StoreNamespaces(p)
    \/ \E p \in Callers : StoreLastFetch(p)
    \/ \E p \in Callers : Finish(p)
    \/ Tick
    \/ UpstreamChanges

\* GetNamespaces called again and again, one call at a time
NextNamespacesSeq ==
    \/ \E p \in Callers, d \in Durations : AllIdle /\ Start(p, d)
    \/ \E p \in Callers : ReturnCached(p)
    \/ \E p \in Callers : ListFails(p)
    \/ \E p \in Callers : ListSucceeds(p)
    \/ \E p \in Callers : StoreNamespaces(p)
    \/ \E p \in Callers : StoreLastFetch(p)
    \/ \E p \in Callers : Finish(p)
    \/ Tick
    \/ UpstreamChanges

(***************************************************************************)
(* CRD discovery: loadCRDs, started by NewCluster (line 614), and GetCRDs. *)
(***************************************************************************)
Readers == 1..NumReaders

\* int is 64 bits wide: a word is its eight bytes, least significant first
Word(n) == [i \in 1..8 |-> IF i = 1 THEN n ELSE 0]

\* offset * 2 (line 519), wrapping as the machine multiplication does
Double(w) ==
    [i \in 1..8 |->
        (2 * w[i] + (IF i > 1 /\ w[i - 1] >= 128 THEN 1 ELSE 0)) % 256]

\* line 509: offset := 30
InitialOffset == 30

\* a word times a small number, wrapping as the machine multiplication does
RECURSIVE MulFrom(_, _, _, _)
MulFrom(w, m, i, carry) ==
    IF i > Len(w) THEN <<>>
    ELSE LET v == w[i] * m + carry
         IN <<v % 256>> \o MulFrom(w, m, i + 1, v \div 256)

Mul(w, m) == MulFrom(w, m, 1, 0)

\* lines 518 and 528: time.Duration(offset) * time.Second, in nanoseconds;
\* time.Second is 1000 * 1000 * 1000
SleepDuration(offset) == Mul(Mul(Mul(offset, 1000), 1000), 1000)

NoSchema == "no schema"

Column(name) ==
    [description |-> "", jsonPath |-> ".status." \o name, name |-> name,
     type |-> "string"]

\* the one version of applications.kobs.io
ApplicationV1beta1 ==
    [name |-> "v1beta1", served |-> TRUE,
     schema |-> "Application is the Application CRD.",
     additionalPrinterColumns |-> <<>>]

\* a version the API server has stopped serving
WidgetV1 ==
    [name |-> "v1", served |-> FALSE, schema |-> NoSchema,
     additionalPrinterColumns |-> <<Column("phase"), Column("age")>>]

WidgetV2 ==
    [name |-> "v2", served |-> TRUE, schema |-> "Widget, second version.",
     additionalPrinterColumns |-> <<Column("ready")>>]

Definitions ==
    { [group |-> "kobs.io", plural |-> "applications", kind |-> "Application",
       scope |-> "Namespaced", versions |-> <<ApplicationV1beta1>>],
      [group |-> "example.io", plural |-> "widgets", kind |-> "Widget",
       scope |-> "Cluster", versions |-> <<WidgetV1, WidgetV2>>],
      [group |-> "example.io", plural |-> "gadgets", kind |-> "Gadget",
       scope |-> "Namespaced", versions |-> <<>>] }

DefinitionLists ==
    UNION {[1..n -> Definitions] : n \in 0..MaxDefs}

\* lines 535-538
Description(version) ==
    IF version.schema # NoSchema THEN version.schema ELSE ""

\* lines 540-550
Columns(version) ==
    [k \in 1..Len(version.additionalPrinterColumns) |->
        [Description |-> version.additionalPrinterColumns[k].description,
         JSONPath |-> version.additionalPrinterColumns[k].jsonPath,
         Name |-> version.additionalPrinterColumns[k].name,
         Type |-> version.additionalPrinterColumns[k].type]]

\* lines 552-559: the CRD appended for one version of one definition
Entry(crd, version) ==
    [Path |-> crd.group \o "/" \o version.name,
     Resource |-> crd.plural,
     Title |-> crd.kind,
     Description |-> Description(version),
     Scope |-> crd.scope,
     Columns |-> Columns(version)]

\* the position the loops of lines 533-534 reach next from item i, version j:
\* <<i, j>> names a version to append, <<Len(items) + 1, 1>> the end of the loops
RECURSIVE PositionFirstVersionOnly(_, _, _)
PositionFirstVersionOnly(items, i, j) ==
    IF i > Len(items) THEN <<i, 1>>
    ELSE IF j > 1 \/ j > Len(items[i].versions)
         THEN PositionFirstVersionOnly(items, i + 1, 1)
    ELSE <<i, j>>

RECURSIVE Position(_, _, _)
Position(items, i, j) ==
    IF i > Len(items) THEN <<i, 1>>
    ELSE IF j > Len(items[i].versions) THEN Position(items, i + 1, 1)
    ELSE <<i, j>>

GarbageCRD ==
    [Path |-> Garbage, Resource |-> Garbage, Title |-> Garbage,
     Description |-> Garbage, Scope |-> Garbage, Columns |-> <<>>]

IdleRead == [pc |-> "idle", result |-> <<>>, raced |-> FALSE]

CrdsInit ==
    /\ crdUpstream \in {"down", "garbage", "ok"}
    /\ crdList \in DefinitionLists
    /\ load = [pc |-> "fetch", offset |-> Word(InitialOffset), items |-> <<>>,
               i |-> 1, j |-> 1, store |-> <<>>]
    /\ crds = <<>>
    /\ reads = [r \in Readers |-> IdleRead]

\* a cluster whose discovery is not looked at
CrdsQuiet ==
    /\ crdUpstream = "down"
    /\ crdList = <<>>
    /\ load = [pc |-> "fetch", offset |-> Word(InitialOffset), items |-> <<>>,
               i |-> 1, j |-> 1, store |-> <<>>]
    /\ crds = <<>>
    /\ reads = [r \in Readers |-> IdleRead]

\* lines 515-521: the request fails; the task goes to sleep
LoadFetchGivesUp ==
    /\ load.pc = "fetch"
    /\ crdUpstream = "down"
    /\ load' = [load EXCEPT !.pc = "done"]
    /\ UNCHANGED <<crdUpstream, crdList, crds, reads, nsVars, logVars, termVars, apiVars, getLogsVars, copyVars, registryVars, frameVars, keepAliveVars, rssVars>>

LoadFetchFails ==
    /\ load.pc = "fetch"
    /\ crdUpstream = "down"
    /\ load' = [load EXCEPT !.pc = "sleep"]
    /\ UNCHANGED <<crdUpstream, crdList, crds, reads, nsVars, logVars, termVars, apiVars, getLogsVars, copyVars, registryVars, frameVars, keepAliveVars, rssVars>>

\* lines 523-531: the answer cannot be decoded; the task goes to sleep
LoadUnmarshalKeepsPart ==
    /\ load.pc = "fetch"
    /\ crdUpstream = "garbage"
    /\ load' = [load EXCEPT !.pc = "sleep"]
    /\ crds' = Append(crds, GarbageCRD)
    /\ UNCHANGED <<crdUpstream, crdList, reads, nsVars, logVars, termVars, apiVars, getLogsVars, copyVars, registryVars, frameVars, keepAliveVars, rssVars>>

LoadUnmarshalFails ==
    /\ load.pc = "fetch"
    /\ crdUpstream = "garbage"
    /\ load' = [load EXCEPT !.pc = "sleep"]
    /\ UNCHANGED <<crdUpstream, crdList, crds, reads, nsVars, logVars, termVars, apiVars, getLogsVars, copyVars, registryVars, frameVars, keepAliveVars, rssVars>>

\* lines 518-520 and 528-530: time.Sleep returns, offset = offset * 2, continue
LoadSleepReturns ==
    /\ load.pc = "sleep"
    /\ load' = [load EXCEPT !.pc = "fetch", !.offset = Double(load.offset)]
    /\ UNCHANGED <<crdUpstream, crdList, crds, reads, nsVars, logVars, termVars, apiVars, getLogsVars, copyVars, registryVars, frameVars, keepAliveVars, rssVars>>

\* lines 515-533: the list is fetched and decoded; the loops begin
LoadFetchSucceeds ==
    /\ load.pc = "fetch"
    /\ crdUpstream = "ok"
    /\ load' = [load EXCEPT !.pc = "loop", !.items = crdList, !.i = 1, !.j = 1]
    /\ UNCHANGED <<crdUpstream, crdList, crds, reads, nsVars, logVars, termVars, apiVars, getLogsVars, copyVars, registryVars, frameVars, keepAliveVars, rssVars>>

\* lines 533-559: the next version's CRD is built and append computes the new
\* slice; the store of its header into c.crds begins
LoadAppendBegins ==
    /\ load.pc = "loop"
    /\ LET pos == Position(load.items, load.i, load.j) IN
        /\ pos[1] <= Len(load.items)
        /\ load' = [load EXCEPT
                !.pc = "store", !.i = pos[1], !.j = pos[2],
                !.store = Append(crds,
                    Entry(load.items[pos[1]], load.items[pos[1]].versions[pos[2]]))]
    /\ UNCHANGED <<crdUpstream, crdList, crds, reads, nsVars, logVars, termVars, apiVars, getLogsVars, copyVars, registryVars, frameVars, keepAliveVars, rssVars>>

\* line 552: c.crds = ... is stored
LoadAppendReplaces ==
    /\ load.pc = "store"
    /\ crds' = <<load.store[Len(load.store)]>>
    /\ load' = [load EXCEPT !.pc = "loop", !.j = load.j + 1, !.store = <<>>]
    /\ UNCHANGED <<crdUpstream, crdList, reads, nsVars, logVars, termVars, apiVars, getLogsVars, copyVars, registryVars, frameVars, keepAliveVars, rssVars>>

LoadAppendEnds ==
    /\ load.pc = "store"
    /\ crds' = load.store
    /\ load' = [load EXCEPT !.pc = "loop", !.j = load.j + 1, !.store = <<>>]
    /\ UNCHANGED <<crdUpstream, crdList, reads, nsVars, logVars, termVars, apiVars, getLogsVars, copyVars, registryVars, frameVars, keepAliveVars, rssVars>>

\* lines 563-565: the loops are over; break, and the goroutine ends
LoadBreak ==
    /\ load.pc = "loop"
    /\ Position(load.items, load.i, load.j)[1] > Len(load.items)
    /\ load' = [load EXCEPT !.pc = "done", !.items = <<>>]
    /\ UNCHANGED <<crdUpstream, crdList, crds, reads, nsVars, logVars, termVars, apiVars, getLogsVars, copyVars, registryVars, frameVars, keepAliveVars, rssVars>>

\* GetCRDs has no lock either: what its read of c.crds (line 94) can yield
CrdsReads ==
    IF load.pc = "store"
    THEN {crds, load.store, MixedSlice(crds, load.store, GarbageCRD)}
    ELSE {crds}

\* lines 93-95
GetCRDs(r) ==
    /\ reads[r].pc = "idle"
    /\ \E l \in CrdsReads :
        reads' = [reads EXCEPT ![r] =
            [pc |-> "done", result |-> l, raced |-> load.pc = "store"]]
    /\ UNCHANGED <<crdUpstream, crdList, load, crds, nsVars, logVars, termVars, apiVars, getLogsVars, copyVars, registryVars, frameVars, keepAliveVars, rssVars>>

ReadFinish(r) ==
    /\ reads[r].pc = "done"
    /\ reads' = [reads EXCEPT ![r] = IdleRead]
    /\ UNCHANGED <<crdUpstream, crdList, load, crds, nsVars, logVars, termVars, apiVars, getLogsVars, copyVars, registryVars, frameVars, keepAliveVars, rssVars>>

\* the environment: the API server goes down, answers garbage, recovers
CrdUpstreamChanges ==
    /\ \E u \in {"down", "garbage", "ok"} \ {crdUpstream} : crdUpstream' = u
    /\ UNCHANGED <<crdList, load, crds, reads, nsVars, logVars, termVars, apiVars, getLogsVars, copyVars, registryVars, frameVars, keepAliveVars, rssVars>>

LoadStep ==
    \/ LoadFetchFails
    \/ LoadUnmarshalFails
    \/ LoadSleepReturns
    \/ LoadFetchSucceeds
    \/ LoadAppendBegins
    \/ LoadAppendEnds
    \/ LoadBreak

NextCrds ==
    \/ LoadFetchFails
    \/ LoadUnmarshalFails
    \/ LoadSleepReturns
    \/ LoadFetchSucceeds
    \/ LoadAppendBegins
    \/ LoadAppendEnds
    \/ LoadBreak
    \/ \E r \in Readers : GetCRDs(r)
    \/ \E r \in Readers : ReadFinish(r)
    \/ CrdUpstreamChanges

\* the namespace cache of a cluster whose calls are not looked at
NamespacesQuiet ==
    /\ now = StartTime
    /\ upstreamNamespaces = <<"default">>
    /\ upstreamCalls = 0
    /\ served = <<>>
    /\ cache = Cache
    /\ cacheFrom = [namespaces |-> 0, namespacesLastFetch |-> 0]
    /\ calls = [p \in Callers |-> IdleCall]


(***************************************************************************)
(* StreamLogs, lines 258-303, with bufio.Reader.ReadLine as the standard   *)
(* library implements it (ReadSlice, fill, readErr).                       *)
(***************************************************************************)
\* line 275: bufio.NewReaderSize(stream, 16)
BufSize == 16

CR == "\r"
LF == "\n"

EOF == "EOF"
ReadFailed == "read failed"
Canceled == "context canceled"
WriteFailed == "write failed"
OpenFailed == "open failed"
ErrBufferFull == "bufio: buffer full"

Min(a, b) == IF a < b THEN a ELSE b

\* bytes.IndexByte: the first index of c in s, 0 when there is none
RECURSIVE IndexFrom(_, _, _)
IndexFrom(s, c, i) ==
    IF i > Len(s) THEN 0
    ELSE IF s[i] = c THEN i
    ELSE IndexFrom(s, c, i + 1)

IndexByte(s, c) == IndexFrom(s, c, 1)

\* strings.Split(s, sep) for a one-byte separator: never empty
RECURSIVE Split(_, _)
Split(s, sep) ==
    LET i == IndexByte(s, sep) IN
    IF i = 0 THEN <<s>>
    ELSE <<SubSeq(s, 1, i - 1)>> \o Split(SubSeq(s, i + 1, Len(s)), sep)

\* the log is built from a few pieces: single bytes and a run that nearly
\* fills the read buffer
Run == [i \in 1..(BufSize - 1) |-> "a"]

Segments == {<<"b">>, <<CR>>, <<LF>>, Run}

RECURSIVE Concat(_)
Concat(ss) == IF ss = <<>> THEN <<>> ELSE ss[1] \o Concat(Tail(ss))

LogsUpTo(n) == {Concat(ss) : ss \in UNION {[1..k -> Segments] : k \in 0..n}}

\* ReadSlice('\n') can return without another read from the stream
CanReturn(buf, err) ==
    \/ IndexByte(buf, LF) > 0
    \/ err # None
    \/ Len(buf) >= BufSize

\* bufio.Reader.ReadSlice('\n') once it can return: the line, the error, and
\* the reader it leaves behind
ReadSlice(buf, err) ==
    LET i == IndexByte(buf, LF) IN
    IF i > 0
    THEN [line |-> SubSeq(buf, 1, i), err |-> None,
          buf |-> SubSeq(buf, i + 1, Len(buf)), pending |-> err]
    ELSE IF err # None
    THEN [line |-> buf, err |-> err, buf |-> <<>>, pending |-> None]
    ELSE [line |-> buf, err |-> ErrBufferFull, buf |-> <<>>, pending |-> None]

\* bufio.Reader.ReadLine
ReadLine(buf, err) ==
    LET s == ReadSlice(buf, err)
        n == Len(s.line)
    IN
    IF s.err = ErrBufferFull
    THEN IF n > 0 /\ s.line[n] = CR
         THEN \* "\r\n" may straddle the buffer: the '\r' is put back
              [data |-> SubSeq(s.line, 1, n - 1), isPrefix |-> TRUE, err |-> None,
               buf |-> <<CR>> \o s.buf, pending |-> s.pending]
         ELSE [data |-> s.line, isPrefix |-> TRUE, err |-> None,
               buf |-> s.buf, pending |-> s.pending]
    ELSE IF n = 0
    THEN [data |-> <<>>, isPrefix |-> FALSE, err |-> s.err,
          buf |-> s.buf, pending |-> s.pending]
    ELSE LET drop == IF s.line[n] # LF THEN 0
                     ELSE IF n > 1 /\ s.line[n - 1] = CR THEN 2
                     ELSE 1
         IN [data |-> SubSeq(s.line, 1, n - drop), isPrefix |-> FALSE, err |-> None,
             buf |-> s.buf, pending |-> s.pending]

\* lines 284-295: the lines to write and the new lastLine
SplitLinesNoHold(data, isPrefix, lastLine) ==
    LET lines == Split(data, CR)
        joined == IF Len(lastLine) > 0
                  THEN <<lastLine \o lines[1]>> \o Tail(lines)
                  ELSE lines
    IN [lines |-> joined, lastLine |-> <<>>]

SplitLines(data, isPrefix, lastLine) ==
    LET lines == Split(data, CR)
        length == Len(lines)
        joined == IF Len(lastLine) > 0
                  THEN <<lastLine \o lines[1]>> \o Tail(lines)
                  ELSE lines
    IN IF isPrefix
       THEN [lines |-> SubSeq(joined, 1, length - 1), lastLine |-> joined[length]]
       ELSE [lines |-> joined, lastLine |-> <<>>]

LogsInit ==
    /\ log \in LogsUpTo(MaxSegs)
    /\ ctx = "live"
    /\ stream = [state |-> "unopened", pos |-> 0, err |-> None, closes |-> 0]
    /\ reader = [buf |-> <<>>, err |-> None]
    /\ sl = [pc |-> "open", lastLine |-> <<>>, err |-> None]
    /\ written = <<>>

\* no StreamLogs call is looked at
LogsQuiet ==
    /\ log = <<>>
    /\ ctx = "live"
    /\ stream = [state |-> "unopened", pos |-> 0, err |-> None, closes |-> 0]
    /\ reader = [buf |-> <<>>, err |-> None]
    /\ sl = [pc |-> "idle", lastLine |-> <<>>, err |-> None]
    /\ written = <<>>

\* lines 269-272: the stream cannot be opened
OpenFails ==
    /\ sl.pc = "open"
    /\ sl' = [sl EXCEPT !.pc = "returned", !.err = OpenFailed]
    /\ UNCHANGED <<log, ctx, stream, reader, written, nsVars, crdVars, termVars, apiVars, getLogsVars, copyVars, registryVars, frameVars, keepAliveVars, rssVars>>

\* lines 269-276
Opens ==
    /\ sl.pc = "open"
    /\ ctx = "live"
    /\ stream' = [stream EXCEPT !.state = "open"]
    /\ sl' = [sl EXCEPT !.pc = "read"]
    /\ UNCHANGED <<log, ctx, reader, written, nsVars, crdVars, termVars, apiVars, getLogsVars, copyVars, registryVars, frameVars, keepAliveVars, rssVars>>

\* a return of StreamLogs after line 274: the deferred stream.Close() runs
ReturnLeaks(err) ==
    /\ sl' = [sl EXCEPT !.pc = "returned", !.err = err]
    /\ UNCHANGED stream

Return(err) ==
    /\ sl' = [sl EXCEPT !.pc = "returned", !.err = err]
    /\ stream' = [stream EXCEPT !.state = "closed", !.closes = stream.closes + 1]

Reading == sl.pc = "read" /\ ~CanReturn(reader.buf, reader.err)

\* ReadLine -> ReadSlice -> fill: one Read of the stream delivers the next n
\* bytes, with io.EOF at once if they are the last and the stream says so
FillData ==
    /\ Reading
    /\ ctx = "live" /\ stream.err = None
    /\ \E n \in 1..Min(BufSize - Len(reader.buf), Len(log) - stream.pos),
          end \in BOOLEAN :
        /\ end => stream.pos + n = Len(log)
        /\ reader' = [buf |-> reader.buf \o SubSeq(log, stream.pos + 1, stream.pos + n),
                      err |-> IF end THEN EOF ELSE None]
        /\ stream' = [stream EXCEPT !.pos = stream.pos + n,
                                    !.err = IF end THEN EOF ELSE None]
    /\ UNCHANGED <<log, ctx, sl, written, nsVars, crdVars, termVars, apiVars, getLogsVars, copyVars, registryVars, frameVars, keepAliveVars, rssVars>>

\* the Read returns no bytes and io.EOF: the log has ended
FillEOF ==
    /\ Reading
    /\ ctx = "live" /\ stream.err = None
    /\ stream.pos = Len(log)
    /\ reader' = [reader EXCEPT !.err = EOF]
    /\ stream' = [stream EXCEPT !.err = EOF]
    /\ UNCHANGED <<log, ctx, sl, written, nsVars, crdVars, termVars, apiVars, getLogsVars, copyVars, registryVars, frameVars, keepAliveVars, rssVars>>

\* the Read fails: the connection to the API server broke
FillFails ==
    /\ Reading
    /\ ctx = "live" /\ stream.err = None
    /\ reader' = [reader EXCEPT !.err = ReadFailed]
    /\ stream' = [stream EXCEPT !.err = ReadFailed]
    /\ UNCHANGED <<log, ctx, sl, written, nsVars, crdVars, termVars, apiVars, getLogsVars, copyVars, registryVars, frameVars, keepAliveVars, rssVars>>

\* the Read of a stream whose context is cancelled fails
FillCanceledBlocks ==
    /\ Reading
    /\ ctx = "canceled" /\ stream.err = None
    /\ UNCHANGED vars

FillCanceled ==
    /\ Reading
    /\ ctx = "canceled" /\ stream.err = None
    /\ reader' = [reader EXCEPT !.err = Canceled]
    /\ stream' = [stream EXCEPT !.err = Canceled]
    /\ UNCHANGED <<log, ctx, sl, written, nsVars, crdVars, termVars, apiVars, getLogsVars, copyVars, registryVars, frameVars, keepAliveVars, rssVars>>

\* the Read of a stream that has ended or failed fails again
FillAgain ==
    /\ Reading
    /\ stream.err # None
    /\ reader' = [reader EXCEPT !.err = stream.err]
    /\ UNCHANGED <<log, ctx, stream, sl, written, nsVars, crdVars, termVars, apiVars, getLogsVars, copyVars, registryVars, frameVars, keepAliveVars, rssVars>>

\* lines 279-282: ReadLine returns an error
ReadLineFails ==
    /\ sl.pc = "read" /\ CanReturn(reader.buf, reader.err)
    /\ LET r == ReadLine(reader.buf, reader.err) IN
        /\ r.err # None
        /\ reader' = [buf |-> r.buf, err |-> r.pending]
        /\ Return(r.err)
    /\ UNCHANGED <<log, ctx, written, nsVars, crdVars, termVars, apiVars, getLogsVars, copyVars, registryVars, frameVars, keepAliveVars, rssVars>>

\* lines 279-301: ReadLine returns data and every line of it is written
WritesLines ==
    /\ sl.pc = "read" /\ CanReturn(reader.buf, reader.err)
    /\ LET r == ReadLine(reader.buf, reader.err)
           l == SplitLines(r.data, r.isPrefix, sl.lastLine)
       IN
        /\ r.err = None
        /\ reader' = [buf |-> r.buf, err |-> r.pending]
        /\ written' = written \o l.lines
        /\ sl' = [sl EXCEPT !.lastLine = l.lastLine]
    /\ UNCHANGED <<log, ctx, stream, nsVars, crdVars, termVars, apiVars, getLogsVars, copyVars, registryVars, frameVars, keepAliveVars, rssVars>>

\* lines 279-300: ReadLine returns data, k lines are written and the next
\* WriteMessage fails
WriteFails ==
    /\ sl.pc = "read" /\ CanReturn(reader.buf, reader.err)
    /\ LET r == ReadLine(reader.buf, reader.err)
           l == SplitLines(r.data, r.isPrefix, sl.lastLine)
       IN
        /\ r.err = None
        /\ reader' = [buf |-> r.buf, err |-> r.pending]
        /\ \E k \in 0..(Len(l.lines) - 1) :
            written' = written \o SubSeq(l.lines, 1, k)
        /\ Return(WriteFailed)
    /\ UNCHANGED <<log, ctx, nsVars, crdVars, termVars, apiVars, getLogsVars, copyVars, registryVars, frameVars, keepAliveVars, rssVars>>

\* the caller cancels the context of the request
Cancel ==
    /\ ctx = "live"
    /\ sl.pc # "returned"
    /\ ctx' = "canceled"
    /\ UNCHANGED <<log, stream, reader, sl, written, nsVars, crdVars, termVars, apiVars, getLogsVars, copyVars, registryVars, frameVars, keepAliveVars, rssVars>>

StreamLogsStep ==
    \/ OpenFails
    \/ Opens
    \/ FillData
    \/ FillEOF
    \/ FillFails
    \/ FillCanceled
    \/ FillAgain
    \/ ReadLineFails
    \/ WritesLines
    \/ WriteFails

NextLogs ==
    \/ OpenFails
    \/ Opens
    \/ FillData
    \/ FillEOF
    \/ FillFails
    \/ FillCanceled
    \/ FillAgain
    \/ ReadLineFails
    \/ WritesLines
    \/ WriteFails
    \/ Cancel

\* the same call on a log of fewer pieces, for the sessions taken together
SessionLogsInit ==
    /\ log \in LogsUpTo(MaxSessionSegs)
    /\ ctx = "live"
    /\ stream = [state |-> "unopened", pos |-> 0, err |-> None, closes |-> 0]
    /\ reader = [buf |-> <<>>, err |-> None]
    /\ sl = [pc |-> "open", lastLine |-> <<>>, err |-> None]
    /\ written = <<>>

\* the steps StreamLogs takes by itself or on an answer it is certain to get;
\* that the stream delivers more bytes, ends or breaks is up to the API server
StreamLogsProgress ==
    \/ OpenFails
    \/ Opens
    \/ FillCanceled
    \/ FillAgain
    \/ ReadLineFails
    \/ WritesLines
    \/ WriteFails

(***************************************************************************)
(* GetTerminal, lines 306-323.  terminal.IsValidShell and                  *)
(* terminal.StartProcess are modelled after sections 4.6 and 8 of the      *)
(* specification.                                                          *)
(***************************************************************************)
Shells == {"sh", "bash", "zsh", "bash; rm -rf /"}

ValidShells == {"sh", "bash"}

IsValidShell(shell) == shell \in ValidShells

ParseFailed == "parse failed"
InvalidShell == "invalid shell"
ExecFailed == "exec failed"

TerminalInit ==
    /\ term \in [pc : {"call"}, shell : Shells, exec : {"unopened"}, err : {None}]
    /\ termConn = "live"

TerminalQuiet ==
    /\ term = [pc |-> "idle", shell |-> "sh", exec |-> "unopened", err |-> None]
    /\ termConn = "live"

\* lines 307-310: url.Parse rejects the request URL
TerminalParseFails ==
    /\ term.pc = "call"
    /\ term' = [term EXCEPT !.pc = "returned", !.err = ParseFailed]
    /\ UNCHANGED <<termConn, nsVars, crdVars, logVars, apiVars, getLogsVars, copyVars, registryVars, frameVars, keepAliveVars, rssVars>>

\* lines 312-314
TerminalRejectsShellLate ==
    /\ term.pc = "call"
    /\ ~IsValidShell(term.shell)
    /\ term' = [term EXCEPT !.pc = "returned", !.err = InvalidShell, !.exec = "closed"]
    /\ UNCHANGED <<termConn, nsVars, crdVars, logVars, apiVars, getLogsVars, copyVars, registryVars, frameVars, keepAliveVars, rssVars>>

TerminalRejectsShell ==
    /\ term.pc = "call"
    /\ ~IsValidShell(term.shell)
    /\ term' = [term EXCEPT !.pc = "returned", !.err = InvalidShell]
    /\ UNCHANGED <<termConn, nsVars, crdVars, logVars, apiVars, getLogsVars, copyVars, registryVars, frameVars, keepAliveVars, rssVars>>

\* lines 316-322: StartProcess cannot open the exec stream
TerminalStartFails ==
    /\ term.pc = "call"
    /\ IsValidShell(term.shell)
    /\ term' = [term EXCEPT !.pc = "returned", !.err = ExecFailed]
    /\ UNCHANGED <<termConn, nsVars, crdVars, logVars, apiVars, getLogsVars, copyVars, registryVars, frameVars, keepAliveVars, rssVars>>

\* lines 316-322: StartProcess opens the exec stream and bridges it
TerminalAttaches ==
    /\ term.pc = "call"
    /\ IsValidShell(term.shell)
    /\ term' = [term EXCEPT !.pc = "attached", !.exec = "open"]
    /\ UNCHANGED <<termConn, nsVars, crdVars, logVars, apiVars, getLogsVars, copyVars, registryVars, frameVars, keepAliveVars, rssVars>>

\* the session ends because the external connection is gone; both sides are released
TerminalReleases ==
    /\ term.pc = "attached"
    /\ termConn = "gone"
    /\ term' = [term EXCEPT !.pc = "returned", !.exec = "closed"]
    /\ UNCHANGED <<termConn, nsVars, crdVars, logVars, apiVars, getLogsVars, copyVars, registryVars, frameVars, keepAliveVars, rssVars>>

\* the session ends because the shell exits or the exec stream breaks
TerminalRemoteEnds ==
    /\ term.pc = "attached"
    /\ term' = [term EXCEPT !.pc = "returned", !.exec = "closed"]
    /\ UNCHANGED <<termConn, nsVars, crdVars, logVars, apiVars, getLogsVars, copyVars, registryVars, frameVars, keepAliveVars, rssVars>>

\* the caller gives the session up: the client disconnects
TerminalDisconnects ==
    /\ term.pc \in {"call", "attached"}
    /\ termConn = "live"
    /\ termConn' = "gone"
    /\ UNCHANGED <<term, nsVars, crdVars, logVars, apiVars, getLogsVars, copyVars, registryVars, frameVars, keepAliveVars, rssVars>>

TerminalProgress ==
    \/ TerminalParseFails
    \/ TerminalRejectsShell
    \/ TerminalStartFails
    \/ TerminalAttaches
    \/ TerminalReleases

NextSessions ==
    \/ OpenFails
    \/ Opens
    \/ FillData
    \/ FillEOF
    \/ FillFails
    \/ FillCanceled
    \/ FillAgain
    \/ ReadLineFails
    \/ WritesLines
    \/ WriteFails
    \/ Cancel
    \/ TerminalParseFails
    \/ TerminalRejectsShell
    \/ TerminalStartFails
    \/ TerminalAttaches
    \/ TerminalReleases
    \/ TerminalRemoteEnds
    \/ TerminalDisconnects

(***************************************************************************)
(* NewCluster, lines 571-617: the name of the cluster (line 602).  A name  *)
(* is the sequence of its characters.                                      *)
(***************************************************************************)
Chars == {"a", "B", "7", "-", "_", "É"}

Names == UNION {[1..n -> Chars] : n \in 0..MaxNameLen}

\* strings.ToLower, one character
LowerChar(c) ==
    CASE c = "B" -> "b"
      [] c = "É" -> "é"
      [] OTHER -> c

ToLower(s) == [i \in 1..Len(s) |-> LowerChar(s[i])]

\* line 41: what [^a-z0-9] matches
IsOther(c) == c \notin {"a", "b", "7"}

\* the characters after the run [^a-z0-9]+ that starts s
RECURSIVE AfterRun(_)
AfterRun(s) ==
    IF s # <<>> /\ IsOther(s[1]) THEN AfterRun(Tail(s)) ELSE s

\* slugifyRe.ReplaceAllString(s, "-"): leftmost matches, each as long as it can be
RECURSIVE ReplaceEachChar(_)
ReplaceEachChar(s) ==
    IF s = <<>> THEN <<>>
    ELSE IF IsOther(s[1]) THEN <<"-">> \o ReplaceEachChar(Tail(s))
    ELSE <<s[1]>> \o ReplaceEachChar(Tail(s))

RECURSIVE ReplaceAllString(_)
ReplaceAllString(s) ==
    IF s = <<>> THEN <<>>
    ELSE IF IsOther(s[1]) THEN <<"-">> \o ReplaceAllString(AfterRun(s))
    ELSE <<s[1]>> \o ReplaceAllString(Tail(s))

RECURSIVE TrimLeft(_)
TrimLeft(s) == IF s # <<>> /\ s[1] = "-" THEN TrimLeft(Tail(s)) ELSE s

RECURSIVE TrimRight(_)
TrimRight(s) ==
    IF s # <<>> /\ s[Len(s)] = "-" THEN TrimRight(SubSeq(s, 1, Len(s) - 1)) ELSE s

\* strings.Trim(s, "-")
Trim(s) == TrimRight(TrimLeft(s))

\* line 602
SlugifyTrimsFirst(name) == ReplaceAllString(Trim(ToLower(name)))

Slugify(name) == Trim(ReplaceAllString(ToLower(name)))

ClientsetFailed == "clientset failed"

NamesInit ==
    newCluster \in [pc : {"call"}, input : Names, name : {<<>>},
                    err : {None}, loading : {FALSE}]

NamesQuiet ==
    newCluster = [pc |-> "idle", input |-> <<>>, name |-> <<>>,
                  err |-> None, loading |-> FALSE]

\* lines 572-600: one of the clientsets cannot be created
NewClusterFails ==
    /\ newCluster.pc = "call"
    /\ newCluster' = [newCluster EXCEPT !.pc = "returned", !.err = ClientsetFailed]
    /\ UNCHANGED <<resVars, nsVars, crdVars, logVars, termVars, getLogsVars, copyVars, registryVars, frameVars, keepAliveVars, rssVars>>

\* lines 572-616: the cluster is built under its normalized name and loadCRDs
\* is started
NewCluster ==
    /\ newCluster.pc = "call"
    /\ newCluster' = [newCluster EXCEPT
            !.pc = "returned", !.name = Slugify(newCluster.input),
            !.loading = TRUE]
    /\ UNCHANGED <<resVars, nsVars, crdVars, logVars, termVars, getLogsVars, copyVars, registryVars, frameVars, keepAliveVars, rssVars>>

NextNames ==
    \/ NewClusterFails
    \/ NewCluster

(***************************************************************************)
(* GetResources, DeleteResource, PatchResource and CreateResource, lines   *)
(* 137-211.  A request is what the calls on the request builder have set   *)
(* when DoRaw sends it.                                                    *)
(***************************************************************************)
NotSet == "not set"
Nil == "nil"

Namespaces == {"", "default"}
ObjectNames == {"", "nginx"}
Paths == {"/api/v1"}
Resources == {"pods"}
ParamNames == {"", "labelSelector"}
ParamValues == {"", "app=nginx"}
SubResources == {"", "scale"}
Bodies == {"", "{}"}

\* what DoRaw returns: the bytes of the response and the error
Answers ==
    { [body |-> "{\"items\":[]}", err |-> None],
      [body |-> "", err |-> None],
      [body |-> "{\"kind\":\"Status\"}", err |-> "not found"],
      [body |-> Nil, err |-> "connection refused"] }

Request(verb, path) ==
    [verb |-> verb, absPath |-> path, namespace |-> NotSet, resource |-> NotSet,
     name |-> NotSet, subResource |-> NotSet, params |-> <<>>, body |-> NotSet]

\* lines 138-158: the request GetResources builds
GetRequestListsAlways(namespace, name, path, resource, paramName, param) ==
    [Request("GET", path) EXCEPT
        !.namespace = namespace, !.resource = resource,
        !.params = <<<<paramName, param>>>>]

GetRequest(namespace, name, path, resource, paramName, param) ==
    IF name # ""
    THEN IF namespace # ""
         THEN [Request("GET", path) EXCEPT
                !.namespace = namespace, !.resource = resource, !.name = name]
         ELSE [Request("GET", path) EXCEPT !.resource = resource, !.name = name]
    ELSE [Request("GET", path) EXCEPT
            !.namespace = namespace, !.resource = resource,
            !.params = <<<<paramName, param>>>>]

\* line 170
DeleteRequest(namespace, name, path, resource, body) ==
    [Request("DELETE", path) EXCEPT
        !.namespace = namespace, !.resource = resource, !.name = name,
        !.body = body]

\* line 182
PatchRequest(namespace, name, path, resource, body) ==
    [Request("PATCH", path) EXCEPT
        !.namespace = namespace, !.resource = resource, !.name = name,
        !.body = body]

\* lines 194-204: the request CreateResource builds
CreateRequestPutsOnName(namespace, name, path, resource, subResource, body) ==
    IF name # ""
    THEN [Request("PUT", path) EXCEPT
            !.namespace = namespace, !.name = name, !.resource = resource,
            !.subResource = subResource, !.body = body]
    ELSE [Request("POST", path) EXCEPT
            !.namespace = namespace, !.resource = resource,
            !.subResource = subResource, !.body = body]

CreateRequest(namespace, name, path, resource, subResource, body) ==
    IF name # "" /\ subResource # ""
    THEN [Request("PUT", path) EXCEPT
            !.namespace = namespace, !.name = name, !.resource = resource,
            !.subResource = subResource, !.body = body]
    ELSE [Request("POST", path) EXCEPT
            !.namespace = namespace, !.resource = resource,
            !.subResource = subResource, !.body = body]

\* what GetResources returns for what DoRaw returned (lines 141-146, 150-155,
\* 159-164)
ReturnOfGet(answer) ==
    IF answer.err # None
    THEN [res |-> Nil, err |-> answer.err]
    ELSE [res |-> answer.body, err |-> None]

\* what the three other operations return (lines 171-176, 183-188, 196-210)
ReturnOfWrite(answer) ==
    IF answer.err # None
    THEN [res |-> Nil, err |-> answer.err]
    ELSE [res |-> Nil, err |-> None]

NoArgs ==
    [namespace |-> "", name |-> "", path |-> "", resource |-> "",
     paramName |-> "", param |-> "", subResource |-> "", body |-> ""]

ResourcesInit ==
    /\ resCall = [op |-> "none", args |-> NoArgs, requests |-> <<>>,
                  answer |-> [body |-> Nil, err |-> None],
                  res |-> Nil, err |-> None]
    /\ upstreamRequests = 0

ResourcesQuiet == ResourcesInit

\* the record of one call of an operation: DoRaw sent the request once and the
\* call returned what the operation makes of the answer
ForwardRetries(op, args, request, answer, return) ==
    [op |-> op, args |-> args,
     requests |-> IF answer.err # None THEN <<request, request>> ELSE <<request>>,
     answer |-> answer, res |-> return.res, err |-> return.err]

Forward(op, args, request, answer, return) ==
    [op |-> op, args |-> args, requests |-> <<request>>,
     answer |-> answer, res |-> return.res, err |-> return.err]

\* lines 137-165
GetResources ==
    \E namespace \in Namespaces, name \in ObjectNames, path \in Paths,
       resource \in Resources, paramName \in ParamNames, param \in ParamValues,
       answer \in Answers :
        /\ upstreamRequests < MaxRequests
        /\ resCall' = Forward("GetResources",
                [NoArgs EXCEPT !.namespace = namespace, !.name = name,
                    !.path = path, !.resource = resource,
                    !.paramName = paramName, !.param = param],
                GetRequest(namespace, name, path, resource, paramName, param),
                answer, ReturnOfGet(answer))
        /\ upstreamRequests' = upstreamRequests + Len(resCall'.requests)
        /\ UNCHANGED <<nameVars, nsVars, crdVars, logVars, termVars, getLogsVars, copyVars, registryVars, frameVars, keepAliveVars, rssVars>>

\* lines 169-177
DeleteResource ==
    \E namespace \in Namespaces, name \in ObjectNames, path \in Paths,
       resource \in Resources, body \in Bodies, answer \in Answers :
        /\ upstreamRequests < MaxRequests
        /\ resCall' = Forward("DeleteResource",
                [NoArgs EXCEPT !.namespace = namespace, !.name = name,
                    !.path = path, !.resource = resource, !.body = body],
                DeleteRequest(namespace, name, path, resource, body),
                answer, ReturnOfWrite(answer))
        /\ upstreamRequests' = upstreamRequests + Len(resCall'.requests)
        /\ UNCHANGED <<nameVars, nsVars, crdVars, logVars, termVars, getLogsVars, copyVars, registryVars, frameVars, keepAliveVars, rssVars>>

\* lines 181-189
PatchResource ==
    \E namespace \in Namespaces, name \in ObjectNames, path \in Paths,
       resource \in Resources, body \in Bodies, answer \in Answers :
        /\ upstreamRequests < MaxRequests
        /\ resCall' = Forward("PatchResource",
                [NoArgs EXCEPT !.namespace = namespace, !.name = name,
                    !.path = path, !.resource = resource, !.body = body],
                PatchRequest(namespace, name, path, resource, body),
                answer, ReturnOfWrite(answer))
        /\ upstreamRequests' = upstreamRequests + Len(resCall'.requests)
        /\ UNCHANGED <<nameVars, nsVars, crdVars, logVars, termVars, getLogsVars, copyVars, registryVars, frameVars, keepAliveVars, rssVars>>

\* lines 193-211
CreateResource ==
    \E namespace \in Namespaces, name \in ObjectNames, path \in Paths,
       resource \in Resources, subResource \in SubResources, body \in Bodies,
       answer \in Answers :
        /\ upstreamRequests < MaxRequests
        /\ resCall' = Forward("CreateResource",
                [NoArgs EXCEPT !.namespace = namespace, !.name = name,
                    !.path = path, !.resource = resource,
                    !.subResource = subResource, !.body = body],
                CreateRequest(namespace, name, path, resource, subResource, body),
                answer, ReturnOfWrite(answer))
        /\ upstreamRequests' = upstreamRequests + Len(resCall'.requests)
        /\ UNCHANGED <<nameVars, nsVars, crdVars, logVars, termVars, getLogsVars, copyVars, registryVars, frameVars, keepAliveVars, rssVars>>

NextResources ==
    \/ GetResources
    \/ DeleteResource
    \/ PatchResource
    \/ CreateResource

(***************************************************************************)
(* GetLogs, lines 216-254.  The payload and the text returned are          *)
(* sequences of characters.                                                *)
(***************************************************************************)
Payloads == UNION {[1..n -> {"a", "b", LF}] : n \in 0..MaxPayload}

\* the empty regex, one that does not compile, and two that do
Regexes == {"", "(", "a", "^b"}

\* regexp.Compile returns no error
Compiles(regex) == regex # "("

\* reg.MatchString(line)
MatchString(regex, line) ==
    CASE regex = "a" -> \E i \in 1..Len(line) : line[i] = "a"
      [] regex = "^b" -> Len(line) > 0 /\ line[1] = "b"
      [] OTHER -> FALSE

\* strings.Join(elems, sep)
RECURSIVE Join(_, _)
Join(elems, sep) ==
    IF elems = <<>> THEN <<>>
    ELSE IF Len(elems) = 1 THEN elems[1]
    ELSE elems[1] \o sep \o Join(Tail(elems), sep)

\* lines 246-251: the lines the loop appends to logs
RECURSIVE Matching(_, _)
Matching(regex, lines) ==
    IF lines = <<>> THEN <<>>
    ELSE (IF MatchString(regex, lines[1]) THEN <<lines[1]>> ELSE <<>>)
         \o Matching(regex, Tail(lines))

FetchFailed == "fetch failed"
CompileFailed == "compile failed"

GetLogsInit ==
    getLogs \in [pc : {"call"}, payload : Payloads, regex : Regexes,
                 res : {<<>>}, err : {None}]

GetLogsQuiet ==
    getLogs = [pc |-> "idle", payload |-> <<>>, regex |-> "", res |-> <<>>,
               err |-> None]

\* lines 227-230: the request for the logs fails
GetLogsFetchFails ==
    /\ getLogs.pc = "call"
    /\ getLogs' = [getLogs EXCEPT !.pc = "returned", !.res = <<>>, !.err = FetchFailed]
    /\ UNCHANGED <<nsVars, crdVars, logVars, termVars, apiVars, copyVars, registryVars, frameVars, keepAliveVars, rssVars>>

\* lines 227-239: no regex, every line of the payload is returned
GetLogsAll ==
    /\ getLogs.pc = "call"
    /\ getLogs.regex = ""
    /\ getLogs' = [getLogs EXCEPT
            !.pc = "returned",
            !.res = Join(Split(getLogs.payload, LF), <<LF, CR>>) \o <<LF, CR>>]
    /\ UNCHANGED <<nsVars, crdVars, logVars, termVars, apiVars, copyVars, registryVars, frameVars, keepAliveVars, rssVars>>

\* lines 227-244: the regex does not compile
GetLogsUnfilteredOnBadRegex ==
    /\ getLogs.pc = "call"
    /\ getLogs.regex # "" /\ ~Compiles(getLogs.regex)
    /\ getLogs' = [getLogs EXCEPT
            !.pc = "returned",
            !.res = Join(Split(getLogs.payload, LF), <<LF, CR>>) \o <<LF, CR>>]
    /\ UNCHANGED <<nsVars, crdVars, logVars, termVars, apiVars, copyVars, registryVars, frameVars, keepAliveVars, rssVars>>

GetLogsCompileFails ==
    /\ getLogs.pc = "call"
    /\ getLogs.regex # "" /\ ~Compiles(getLogs.regex)
    /\ getLogs' = [getLogs EXCEPT !.pc = "returned", !.res = <<>>, !.err = CompileFailed]
    /\ UNCHANGED <<nsVars, crdVars, logVars, termVars, apiVars, copyVars, registryVars, frameVars, keepAliveVars, rssVars>>

\* lines 227-253: the lines that match the regex are returned
GetLogsMatching ==
    /\ getLogs.pc = "call"
    /\ getLogs.regex # "" /\ Compiles(getLogs.regex)
    /\ getLogs' = [getLogs EXCEPT
            !.pc = "returned",
            !.res = Join(Matching(getLogs.regex, Split(getLogs.payload, LF)),
                         <<LF, CR>>) \o <<LF, CR>>]
    /\ UNCHANGED <<nsVars, crdVars, logVars, termVars, apiVars, copyVars, registryVars, frameVars, keepAliveVars, rssVars>>

NextGetLogs ==
    \/ GetLogsFetchFails
    \/ GetLogsAll
    \/ GetLogsCompileFails
    \/ GetLogsMatching

(***************************************************************************)
(* CopyFileFromPod and CopyFileToPod, lines 326-345.  A URL query is the   *)
(* sequence of its pieces: the characters "&", "=" and "#" and the words   *)
(* between them.  copy.FileFromPod and copy.FileToPod are modelled after   *)
(* section 4.7 of the specification: they hand reqURL to the exec          *)
(* transport.                                                              *)
(***************************************************************************)
PathPieces == {"f", "command", "&", "=", "#"}

FilePaths == UNION {[1..n -> PathPieces] : n \in 0..MaxPathLen}

\* lines 327 and 338: fmt.Sprintf("&command=...&command=%s", path)
RECURSIVE Command(_, _)
Command(words, path) ==
    IF words = <<>> THEN <<"&", "command", "=">> \o path
    ELSE <<"&", "command", "=", words[1]>> \o Command(Tail(words), path)

\* lines 328 and 339: what follows the "?" of the URL that is formatted
RawURLQuery(command) ==
    <<"container", "=", "app", "&", "stdin", "=", "true", "&", "stdout", "=",
      "true", "&", "stderr", "=", "true", "&", "tty", "=", "false">> \o command

\* url.Parse: the query of the URL ends where the fragment begins
RawQuery(formatted) ==
    LET i == IndexByte(formatted, "#")
    IN IF i = 0 THEN formatted ELSE SubSeq(formatted, 1, i - 1)

\* the pairs of a query: the pieces between "&", each cut at its first "="
Pair(piece) ==
    LET i == IndexByte(piece, "=")
    IN IF i = 0 THEN [key |-> piece, value |-> <<>>]
       ELSE [key |-> SubSeq(piece, 1, i - 1),
             value |-> SubSeq(piece, i + 1, Len(piece))]

QueryPairs(query) ==
    LET pieces == SelectSeq(Split(query, "&"), LAMBDA piece : piece # <<>>)
    IN [k \in 1..Len(pieces) |-> Pair(pieces[k])]

\* the values of one key of a query, in order
Values(query, key) ==
    LET pairs == SelectSeq(QueryPairs(query), LAMBDA pair : pair.key = <<key>>)
    IN [k \in 1..Len(pairs) |-> pairs[k].value]

\* the exec the transport requests for reqURL: its command and its options
ExecRequest(query) ==
    [command |-> Values(query, "command"),
     tty |-> Values(query, "tty")[1],
     stdin |-> Values(query, "stdin")[1],
     container |-> Values(query, "container")[1]]

NoExec == [command |-> <<>>, tty |-> <<>>, stdin |-> <<>>, container |-> <<>>]

CopyFailed == "copy failed"

CopyInit ==
    copyCall \in [pc : {"call"}, op : {"CopyFileFromPod", "CopyFileToPod"},
                  path : FilePaths, exec : {NoExec}, err : {None}]

CopyQuiet ==
    copyCall = [pc |-> "idle", op |-> "CopyFileFromPod", path |-> <<>>,
                exec |-> NoExec, err |-> None]

\* lines 328-331 and 339-342: url.Parse rejects the URL
CopyParseFails ==
    /\ copyCall.pc = "call"
    /\ copyCall' = [copyCall EXCEPT !.pc = "returned", !.err = ParseFailed]
    /\ UNCHANGED <<nsVars, crdVars, logVars, termVars, apiVars, getLogsVars, registryVars, frameVars, keepAliveVars, rssVars>>

\* lines 326-334
CopyFileFromPod ==
    /\ copyCall.pc = "call"
    /\ copyCall.op = "CopyFileFromPod"
    /\ \E err \in {None, CopyFailed} :
        copyCall' = [copyCall EXCEPT
            !.pc = "returned", !.err = err,
            !.exec = ExecRequest(RawQuery(RawURLQuery(
                        Command(<<"tar", "cf", "-">>, copyCall.path))))]
    /\ UNCHANGED <<nsVars, crdVars, logVars, termVars, apiVars, getLogsVars, registryVars, frameVars, keepAliveVars, rssVars>>

\* lines 337-345
CopyFileToPod ==
    /\ copyCall.pc = "call"
    /\ copyCall.op = "CopyFileToPod"
    /\ \E err \in {None, CopyFailed} :
        copyCall' = [copyCall EXCEPT
            !.pc = "returned", !.err = err,
            !.exec = ExecRequest(RawQuery(RawURLQuery(
                        Command(<<"cp", "/dev/stdin">>, copyCall.path))))]
    /\ UNCHANGED <<nsVars, crdVars, logVars, termVars, apiVars, getLogsVars, registryVars, frameVars, keepAliveVars, rssVars>>

NextCopy ==
    \/ CopyParseFails
    \/ CopyFileFromPod
    \/ CopyFileToPod

(***************************************************************************)
(* The registry: main (kobs.go, lines 112-127) loads the clusters of the   *)
(* configuration with clusters.Load, which calls NewCluster for each.      *)
(* clusters.Load is modelled after sections 2, 3 and 6 of the              *)
(* specification.                                                          *)
(***************************************************************************)
ConfigNames == {<<"a">>, <<"a", "_">>, <<"B">>, <<"7">>}

\* an entry of the configuration: a name and a rest.Config from which the
\* clientsets can be created or not
ConfigEntries == [name : ConfigNames, valid : BOOLEAN]

Configs == UNION {[1..n -> ConfigEntries] : n \in 0..MaxClusters}

NameCollision == "name collision"

\* NewCluster, lines 571-617: what it returns for an entry and how many
\* loadCRDs goroutines it starts
NewClusterStartsAnyway(entry) ==
    IF ~entry.valid
    THEN [cluster |-> None, err |-> ClientsetFailed, started |-> 1]
    ELSE [cluster |-> Slugify(entry.name), err |-> None, started |-> 1]

NewClusterResult(entry) ==
    IF ~entry.valid
    THEN [cluster |-> None, err |-> ClientsetFailed, started |-> 0]
    ELSE [cluster |-> Slugify(entry.name), err |-> None, started |-> 1]

NoResult == [cluster |-> None, err |-> None, started |-> 0]

RegistryInit ==
    /\ registry \in [pc : {"load"}, config : Configs, i : {1}, clusters : {<<>>},
                     last : {NoResult}, err : {None}]
    /\ tasksStarted = 0
    /\ process = "loading"

RegistryQuiet ==
    /\ registry = [pc |-> "idle", config |-> <<>>, i |-> 1, clusters |-> <<>>,
                   last |-> NoResult, err |-> None]
    /\ tasksStarted = 0
    /\ process = "loading"

Loading == registry.pc = "load" /\ registry.i <= Len(registry.config)

NamesOf(list) == {list[k] : k \in 1..Len(list)}

\* the next cluster is built and admitted, whatever its name
LoadAdmitsAny ==
    /\ Loading
    /\ LET result == NewClusterResult(registry.config[registry.i]) IN
        /\ result.err = None
        /\ registry' = [registry EXCEPT
                !.i = registry.i + 1, !.last = result,
                !.clusters = Append(registry.clusters, result.cluster)]
        /\ tasksStarted' = tasksStarted + result.started
    /\ UNCHANGED <<process, nsVars, crdVars, logVars, termVars, apiVars, getLogsVars, copyVars, frameVars, keepAliveVars, rssVars>>

\* the next cluster is built and admitted under a name no other cluster has
LoadBuildsCluster ==
    /\ Loading
    /\ LET result == NewClusterResult(registry.config[registry.i]) IN
        /\ result.err = None
        /\ result.cluster \notin NamesOf(registry.clusters)
        /\ registry' = [registry EXCEPT
                !.i = registry.i + 1, !.last = result,
                !.clusters = Append(registry.clusters, result.cluster)]
        /\ tasksStarted' = tasksStarted + result.started
    /\ UNCHANGED <<process, nsVars, crdVars, logVars, termVars, apiVars, getLogsVars, copyVars, frameVars, keepAliveVars, rssVars>>

\* the next cluster is built, its name is that of another cluster: the load fails
LoadCollides ==
    /\ Loading
    /\ LET result == NewClusterResult(registry.config[registry.i]) IN
        /\ result.err = None
        /\ result.cluster \in NamesOf(registry.clusters)
        /\ registry' = [registry EXCEPT
                !.pc = "failed", !.last = result, !.clusters = <<>>,
                !.err = NameCollision]
        /\ tasksStarted' = tasksStarted + result.started
    /\ UNCHANGED <<process, nsVars, crdVars, logVars, termVars, apiVars, getLogsVars, copyVars, frameVars, keepAliveVars, rssVars>>

\* NewCluster fails for the next entry: the load fails as a whole
LoadClusterFails ==
    /\ Loading
    /\ LET result == NewClusterResult(registry.config[registry.i]) IN
        /\ result.err # None
        /\ registry' = [registry EXCEPT
                !.pc = "failed", !.last = result, !.clusters = <<>>,
                !.err = result.err]
        /\ tasksStarted' = tasksStarted + result.started
    /\ UNCHANGED <<process, nsVars, crdVars, logVars, termVars, apiVars, getLogsVars, copyVars, frameVars, keepAliveVars, rssVars>>

\* every entry has its cluster: Load returns them
LoadReturns ==
    /\ registry.pc = "load" /\ registry.i > Len(registry.config)
    /\ registry' = [registry EXCEPT !.pc = "loaded"]
    /\ UNCHANGED <<tasksStarted, process, nsVars, crdVars, logVars, termVars, apiVars, getLogsVars, copyVars, frameVars, keepAliveVars, rssVars>>

\* kobs.go, lines 113-115: log.Fatalf ends the process
MainFatal ==
    /\ process = "loading"
    /\ registry.pc = "failed"
    /\ process' = "exited"
    /\ UNCHANGED <<registry, tasksStarted, nsVars, crdVars, logVars, termVars, apiVars, getLogsVars, copyVars, frameVars, keepAliveVars, rssVars>>

\* kobs.go, lines 117-127: the loaded clusters are given to the API server
MainServes ==
    /\ process = "loading"
    /\ registry.pc = "loaded"
    /\ process' = "serving"
    /\ UNCHANGED <<registry, tasksStarted, nsVars, crdVars, logVars, termVars, apiVars, getLogsVars, copyVars, frameVars, keepAliveVars, rssVars>>

NextRegistry ==
    \/ LoadBuildsCluster
    \/ LoadCollides
    \/ LoadClusterFails
    \/ LoadReturns
    \/ MainFatal
    \/ MainServes

(***************************************************************************)
(* Several clusters side by side.  NewCluster allocates one Cluster for    *)
(* each (line 602), with a cache and a CRD list of its own; a method is    *)
(* called on one of them.  Each method is one step here: what it assigns   *)
(* to the fields of the Cluster it is called on.                           *)
(***************************************************************************)
ClusterIds == 1..NumClusters

\* the name NewCluster gave the cluster; the names differ
ClusterName(c) == [i \in 1..c |-> "a"]

\* lines 571-617: the Cluster as NewCluster leaves it
NewClusterValue(c) == [name |-> ClusterName(c), crds |-> <<>>, cache |-> Cache]

\* what the API server of a cluster answers to the list of line 515
Discovered(c) ==
    <<Entry([group |-> "kobs.io", plural |-> "applications",
             kind |-> "Application", scope |-> "Namespaced"],
            ApplicationV1beta1),
      Entry([group |-> "example.io", plural |-> "widgets", kind |-> "Widget",
             scope |-> "Cluster"], WidgetV1),
      Entry([group |-> "example.io", plural |-> "widgets", kind |-> "Widget",
             scope |-> "Cluster"], WidgetV2)>>

OperationNames ==
    {"GetNamespaces", "loadCRDs", "GetResources", "DeleteResource",
     "PatchResource", "CreateResource", "GetLogs", "StreamLogs"}

NoOperation == [cluster |-> 0, operation |-> "none", failed |-> FALSE, n |-> 0]

\* the call of a method on cluster c
Operation(c, name, failed) ==
    [cluster |-> c, operation |-> name, failed |-> failed, n |-> opCall.n + 1]

FrameInit ==
    /\ clusters = [c \in ClusterIds |-> NewClusterValue(c)]
    /\ opCall = NoOperation

FrameQuiet == FrameInit

\* lines 107-132: a fresh cache is returned (line 113), a failed list returns
\* the error (line 118), a list that succeeds is stored (lines 128-129)
ClusterGetNamespaces(c) ==
    /\ opCall.n < MaxOperations
    /\ \E cacheDuration \in Durations :
          IF IsFresh(clusters[c].cache.namespacesLastFetch, now, cacheDuration)
          THEN /\ opCall' = Operation(c, "GetNamespaces", FALSE)
               /\ clusters' = clusters
          ELSE \/ /\ opCall' = Operation(c, "GetNamespaces", TRUE)
                  /\ clusters' = clusters
               \/ \E namespaces \in NamespaceLists :
                     /\ opCall' = Operation(c, "GetNamespaces", FALSE)
                     /\ clusters' =
                           [clusters EXCEPT
                               ![c].cache = [namespaces |-> namespaces,
                                             namespacesLastFetch |-> now]]
    /\ UNCHANGED <<nsVars, crdVars, logVars, termVars, apiVars, getLogsVars, copyVars, registryVars, keepAliveVars, rssVars>>

\* line 552: the task started at line 614 appends one CRD to the list of the
\* cluster it was started for
ClusterLoadCRDs(c) ==
    /\ opCall.n < MaxOperations
    /\ Len(clusters[c].crds) < MaxLoaded
    /\ Len(clusters[c].crds) < Len(Discovered(c))
    /\ opCall' = Operation(c, "loadCRDs", FALSE)
    /\ clusters' =
          [clusters EXCEPT
              ![c].crds = Append(@, Discovered(c)[Len(clusters[c].crds) + 1])]
    /\ UNCHANGED <<nsVars, crdVars, logVars, termVars, apiVars, getLogsVars, copyVars, registryVars, keepAliveVars, rssVars>>

\* a write that empties the namespace cache of the cluster written to
ClusterCreateResourceDropsCache(c) ==
    /\ opCall.n < MaxOperations
    /\ \E failed \in BOOLEAN : opCall' = Operation(c, "CreateResource", failed)
    /\ clusters' = [clusters EXCEPT ![c].cache = Cache]
    /\ UNCHANGED <<nsVars, crdVars, logVars, termVars, apiVars, getLogsVars, copyVars, registryVars, keepAliveVars, rssVars>>

\* lines 137-165: reads c.clientset and c.name, assigns no field
ClusterGetResources(c) ==
    /\ opCall.n < MaxOperations
    /\ \E failed \in BOOLEAN : opCall' = Operation(c, "GetResources", failed)
    /\ clusters' = clusters
    /\ UNCHANGED <<nsVars, crdVars, logVars, termVars, apiVars, getLogsVars, copyVars, registryVars, keepAliveVars, rssVars>>

\* lines 169-177
ClusterDeleteResource(c) ==
    /\ opCall.n < MaxOperations
    /\ \E failed \in BOOLEAN : opCall' = Operation(c, "DeleteResource", failed)
    /\ clusters' = clusters
    /\ UNCHANGED <<nsVars, crdVars, logVars, termVars, apiVars, getLogsVars, copyVars, registryVars, keepAliveVars, rssVars>>

\* lines 181-189
ClusterPatchResource(c) ==
    /\ opCall.n < MaxOperations
    /\ \E failed \in BOOLEAN : opCall' = Operation(c, "PatchResource", failed)
    /\ clusters' = clusters
    /\ UNCHANGED <<nsVars, crdVars, logVars, termVars, apiVars, getLogsVars, copyVars, registryVars, keepAliveVars, rssVars>>

\* lines 193-211
ClusterCreateResource(c) ==
    /\ opCall.n < MaxOperations
    /\ \E failed \in BOOLEAN : opCall' = Operation(c, "CreateResource", failed)
    /\ clusters' = clusters
    /\ UNCHANGED <<nsVars, crdVars, logVars, termVars, apiVars, getLogsVars, copyVars, registryVars, keepAliveVars, rssVars>>

\* lines 216-254
ClusterGetLogs(c) ==
    /\ opCall.n < MaxOperations
    /\ \E failed \in BOOLEAN : opCall' = Operation(c, "GetLogs", failed)
    /\ clusters' = clusters
    /\ UNCHANGED <<nsVars, crdVars, logVars, termVars, apiVars, getLogsVars, copyVars, registryVars, keepAliveVars, rssVars>>

\* lines 258-303
ClusterStreamLogs(c) ==
    /\ opCall.n < MaxOperations
    /\ \E failed \in BOOLEAN : opCall' = Operation(c, "StreamLogs", failed)
    /\ clusters' = clusters
    /\ UNCHANGED <<nsVars, crdVars, logVars, termVars, apiVars, getLogsVars, copyVars, registryVars, keepAliveVars, rssVars>>

\* request handlers calling the methods of the loaded clusters
NextFrame ==
    \/ Tick
    \/ \E c \in ClusterIds : ClusterGetNamespaces(c)
    \/ \E c \in ClusterIds : ClusterLoadCRDs(c)
    \/ \E c \in ClusterIds : ClusterGetResources(c)
    \/ \E c \in ClusterIds : ClusterDeleteResource(c)
    \/ \E c \in ClusterIds : ClusterPatchResource(c)
    \/ \E c \in ClusterIds : ClusterCreateResource(c)
    \/ \E c \in ClusterIds : ClusterGetLogs(c)
    \/ \E c \in ClusterIds : ClusterStreamLogs(c)

(***************************************************************************)
(* The ClickHouse handlers getLogs and getAggregation                      *)
(* (plugins/clickhouse/clickhouse.go).  After validation the handler makes *)
(* the unbuffered channel done, starts a goroutine that writes a newline   *)
(* at each tick of a ticker, and defers a send on done.  A send on an      *)
(* unbuffered channel and its receive are one step.                        *)
(***************************************************************************)
RequestIds == 1..NumRequests

HandlerKinds == {"getLogs", "getAggregation"}

\* lines 77-93 and 152-170: the checks made before the goroutine is started
Rejections(kind) ==
    IF kind = "getLogs"
    THEN {"Could not find instance name", "Could not parse start time",
          "Could not parse end time"}
    ELSE {"Could not find instance name", "Could not decode request body"}

\* lines 128 and 190: the message rendered when the query fails
QueryError(kind) ==
    IF kind = "getLogs" THEN "Could not get logs"
    ELSE "Error while running aggregation"

NoGoroutine == [pc |-> "none", started |-> 0, ticks |-> 0]

\* a write to the ResponseWriter; returned tells whether the handler had
\* returned when the write was made
Written(r, bytes) == [bytes |-> bytes, returned |-> handlers[r].pc = "returned"]

KeepAliveInit ==
    /\ handlers \in [RequestIds -> [kind : HandlerKinds, pc : {"validate"},
                                    flusher : BOOLEAN]]
    /\ keepAlives = [r \in RequestIds |-> NoGoroutine]
    /\ responses = [r \in RequestIds |-> <<>>]

\* no request for the ClickHouse plugin
KeepAliveQuiet ==
    /\ handlers = [r \in RequestIds |->
                      [kind |-> "getLogs", pc |-> "validate", flusher |-> TRUE]]
    /\ keepAlives = [r \in RequestIds |-> NoGoroutine]
    /\ responses = [r \in RequestIds |-> <<>>]

\* lines 77-93, 152-170: a check fails, the error is rendered, the handler
\* returns before the channel is made
HandlerRejects(r) ==
    /\ handlers[r].pc = "validate"
    /\ \E message \in Rejections(handlers[r].kind) :
          responses' = [responses EXCEPT ![r] = Append(@, Written(r, message))]
    /\ handlers' = [handlers EXCEPT ![r].pc = "returned"]
    /\ UNCHANGED <<keepAlives, nsVars, crdVars, logVars, termVars, apiVars, getLogsVars, copyVars, registryVars, frameVars, rssVars>>

\* lines 99-124, 172-192: the channel is made, the goroutine is started, the
\* send is deferred, the query is sent
HandlerStarts(r) ==
    /\ handlers[r].pc = "validate"
    /\ handlers' = [handlers EXCEPT ![r].pc = "query"]
    /\ keepAlives' = [keepAlives EXCEPT
                         ![r] = [pc |-> "select",
                                 started |-> keepAlives[r].started + 1,
                                 ticks |-> 0]]
    /\ UNCHANGED <<responses, nsVars, crdVars, logVars, termVars, apiVars, getLogsVars, copyVars, registryVars, frameVars, rssVars>>

\* lines 126-130, 188-192: the query fails, the error is rendered, the
\* handler returns into its deferred send
QueryFails(r) ==
    /\ handlers[r].pc = "query"
    /\ handlers' = [handlers EXCEPT ![r].pc = "deferred"]
    /\ responses' =
          [responses EXCEPT
              ![r] = Append(@, Written(r, QueryError(handlers[r].kind)))]
    /\ UNCHANGED <<keepAlives, nsVars, crdVars, logVars, termVars, apiVars, getLogsVars, copyVars, registryVars, frameVars, rssVars>>

\* lines 132-146, 194-202: the result is rendered, the handler returns into
\* its deferred send
QuerySucceeds(r) ==
    /\ handlers[r].pc = "query"
    /\ handlers' = [handlers EXCEPT ![r].pc = "deferred"]
    /\ responses' = [responses EXCEPT ![r] = Append(@, Written(r, "data"))]
    /\ UNCHANGED <<keepAlives, nsVars, crdVars, logVars, termVars, apiVars, getLogsVars, copyVars, registryVars, frameVars, rssVars>>

\* lines 109, 181: the select takes a tick of the ticker
TickerFires(r) ==
    /\ keepAlives[r].pc = "select"
    /\ keepAlives[r].ticks < MaxKeepAlives
    /\ keepAlives' = [keepAlives EXCEPT ![r].pc = "write",
                                        ![r].ticks = @ + 1]
    /\ UNCHANGED <<handlers, responses, nsVars, crdVars, logVars, termVars, apiVars, getLogsVars, copyVars, registryVars, frameVars, rssVars>>

\* lines 110-118, 182-186: a newline is written and flushed when the
\* ResponseWriter is an http.Flusher; the loop goes back to the select
KeepAliveWrites(r) ==
    /\ keepAlives[r].pc = "write"
    /\ keepAlives' = [keepAlives EXCEPT ![r].pc = "select"]
    /\ responses' =
          [responses EXCEPT
              ![r] = IF handlers[r].flusher THEN Append(@, Written(r, "\n"))
                     ELSE @]
    /\ UNCHANGED <<handlers, nsVars, crdVars, logVars, termVars, apiVars, getLogsVars, copyVars, registryVars, frameVars, rssVars>>

\* a send that does not wait for its receive, as on a buffered channel
DoneSentUnreceived(r) ==
    /\ handlers[r].pc = "deferred"
    /\ handlers' = [handlers EXCEPT ![r].pc = "returned"]
    /\ UNCHANGED <<keepAlives, responses, nsVars, crdVars, logVars, termVars, apiVars, getLogsVars, copyVars, registryVars, frameVars, rssVars>>

\* lines 122-124 and 107-108 (190-192 and 179-180): the deferred send meets
\* the receive of the select; the handler returns and the goroutine returns,
\* stopping its ticker
DoneReceived(r) ==
    /\ handlers[r].pc = "deferred"
    /\ keepAlives[r].pc = "select"
    /\ handlers' = [handlers EXCEPT ![r].pc = "returned"]
    /\ keepAlives' = [keepAlives EXCEPT ![r].pc = "returned"]
    /\ UNCHANGED <<responses, nsVars, crdVars, logVars, termVars, apiVars, getLogsVars, copyVars, registryVars, frameVars, rssVars>>

NextKeepAlive ==
    \/ \E r \in RequestIds : HandlerRejects(r)
    \/ \E r \in RequestIds : HandlerStarts(r)
    \/ \E r \in RequestIds : QueryFails(r)
    \/ \E r \in RequestIds : QuerySucceeds(r)
    \/ \E r \in RequestIds : TickerFires(r)
    \/ \E r \in RequestIds : KeepAliveWrites(r)
    \/ \E r \in RequestIds : DoneReceived(r)

(***************************************************************************)
(* The RSS handler getFeed (plugins/rss/rss.go).  One goroutine per url    *)
(* parses the feed and appends it to the slice feeds, which all of them    *)
(* share and none of them locks: an append reads the slice and then        *)
(* stores the longer one, and other goroutines run between the two.        *)
(***************************************************************************)
Urls == {"a", "b"}

UrlLists == UNION {[1..n -> Urls] : n \in 0..MaxUrls}

\* the feed the goroutine of the k-th url parsed
Feed(urls, k) == [url |-> urls[k], parser |-> k]

\* feed is nil
NoFeed == [url |-> "", parser |-> 0]

IdleParser == [pc |-> "idle", feed |-> NoFeed, slice |-> <<>>]

GetFeedInit ==
    /\ getFeed \in [urls : UrlLists, pc : {"start"}, wg : {0},
                    transformed : {<<>>}]
    /\ parsers = [k \in 1..MaxUrls |-> IdleParser]
    /\ feeds = <<>>

\* no request for the RSS plugin
RssQuiet ==
    /\ getFeed = [urls |-> <<>>, pc |-> "start", wg |-> 0,
                  transformed |-> <<>>]
    /\ parsers = [k \in 1..MaxUrls |-> IdleParser]
    /\ feeds = <<>>

\* lines 39-57: feeds is nil, the WaitGroup counts the urls, one goroutine
\* is started for each
GetFeedStarts ==
    /\ getFeed.pc = "start"
    /\ getFeed' = [getFeed EXCEPT !.pc = "wait", !.wg = Len(getFeed.urls)]
    /\ parsers' = [k \in 1..MaxUrls |->
                      IF k <= Len(getFeed.urls)
                      THEN [IdleParser EXCEPT !.pc = "parse"]
                      ELSE IdleParser]
    /\ UNCHANGED <<feeds, nsVars, crdVars, logVars, termVars, apiVars, getLogsVars, copyVars, registryVars, frameVars, keepAliveVars>>

\* lines 45-49: ParseURL fails, the error is logged, feed is nil
ParseFails(k) ==
    /\ parsers[k].pc = "parse"
    /\ parsers' = [parsers EXCEPT ![k].pc = "done"]
    /\ UNCHANGED <<getFeed, feeds, nsVars, crdVars, logVars, termVars, apiVars, getLogsVars, copyVars, registryVars, frameVars, keepAliveVars>>

\* lines 45-51: ParseURL returns a feed
ParseSucceeds(k) ==
    /\ parsers[k].pc = "parse"
    /\ parsers' = [parsers EXCEPT ![k].pc = "append",
                                  ![k].feed = Feed(getFeed.urls, k)]
    /\ UNCHANGED <<getFeed, feeds, nsVars, crdVars, logVars, termVars, apiVars, getLogsVars, copyVars, registryVars, frameVars, keepAliveVars>>

\* line 52, first half: append reads the slice
AppendReads(k) ==
    /\ parsers[k].pc = "append"
    /\ parsers' = [parsers EXCEPT ![k].pc = "store", ![k].slice = feeds]
    /\ UNCHANGED <<getFeed, feeds, nsVars, crdVars, logVars, termVars, apiVars, getLogsVars, copyVars, registryVars, frameVars, keepAliveVars>>

\* line 52, second half: the slice read, one longer, is stored
AppendStores(k) ==
    /\ parsers[k].pc = "store"
    /\ feeds' = Append(parsers[k].slice, parsers[k].feed)
    /\ parsers' = [parsers EXCEPT ![k].pc = "done"]
    /\ UNCHANGED <<getFeed, nsVars, crdVars, logVars, termVars, apiVars, getLogsVars, copyVars, registryVars, frameVars, keepAliveVars>>

\* line 55: wg.Done()
WaitGroupDone(k) ==
    /\ parsers[k].pc = "done"
    /\ parsers' = [parsers EXCEPT ![k].pc = "returned"]
    /\ getFeed' = [getFeed EXCEPT !.wg = @ - 1]
    /\ UNCHANGED <<feeds, nsVars, crdVars, logVars, termVars, apiVars, getLogsVars, copyVars, registryVars, frameVars, keepAliveVars>>

\* lines 59-65: wg.Wait() returns when the counter is zero; feeds is handed
\* to Transform and the items are rendered
GetFeedTransforms ==
    /\ getFeed.pc = "wait"
    /\ getFeed.wg = 0
    /\ getFeed' = [getFeed EXCEPT !.pc = "returned", !.transformed = feeds]
    /\ UNCHANGED <<parsers, feeds, nsVars, crdVars, logVars, termVars, apiVars, getLogsVars, copyVars, registryVars, frameVars, keepAliveVars>>

NextRss ==
    \/ GetFeedStarts
    \/ \E k \in 1..MaxUrls : ParseFails(k)
    \/ \E k \in 1..MaxUrls : ParseSucceeds(k)
    \/ \E k \in 1..MaxUrls : AppendReads(k)
    \/ \E k \in 1..MaxUrls : AppendStores(k)
    \/ \E k \in 1..MaxUrls : WaitGroupDone(k)
    \/ GetFeedTransforms

(***************************************************************************)
(* Specifications: one per part of the cluster, the other parts at rest.   *)
(***************************************************************************)
InitLogs ==
    /\ LogsInit
    /\ NamespacesQuiet
    /\ CrdsQuiet
    /\ TerminalQuiet
    /\ NamesQuiet
    /\ ResourcesQuiet
    /\ GetLogsQuiet
    /\ CopyQuiet
    /\ RegistryQuiet
    /\ FrameQuiet
    /\ KeepAliveQuiet
    /\ RssQuiet

SpecLogs == InitLogs /\ [][NextLogs]_vars

InitCrds ==
    /\ CrdsInit
    /\ NamespacesQuiet
    /\ LogsQuiet
    /\ TerminalQuiet
    /\ NamesQuiet
    /\ ResourcesQuiet
    /\ GetLogsQuiet
    /\ CopyQuiet
    /\ RegistryQuiet
    /\ FrameQuiet
    /\ KeepAliveQuiet
    /\ RssQuiet

\* the goroutine started by `go c.loadCRDs()` is scheduled as long as it can run
SpecCrds == InitCrds /\ [][NextCrds]_vars /\ WF_vars(LoadStep)

InitNamespaces ==
    /\ NamespacesInit
    /\ CrdsQuiet
    /\ LogsQuiet
    /\ TerminalQuiet
    /\ NamesQuiet
    /\ ResourcesQuiet
    /\ GetLogsQuiet
    /\ CopyQuiet
    /\ RegistryQuiet
    /\ FrameQuiet
    /\ KeepAliveQuiet
    /\ RssQuiet

InitSessions ==
    /\ SessionLogsInit
    /\ TerminalInit
    /\ NamespacesQuiet
    /\ CrdsQuiet
    /\ NamesQuiet
    /\ ResourcesQuiet
    /\ GetLogsQuiet
    /\ CopyQuiet
    /\ RegistryQuiet
    /\ FrameQuiet
    /\ KeepAliveQuiet
    /\ RssQuiet

\* the goroutines of a log stream and of a terminal session are scheduled as
\* long as they can run
SpecSessions ==
    /\ InitSessions
    /\ [][NextSessions]_vars
    /\ WF_vars(StreamLogsProgress)
    /\ WF_vars(TerminalProgress)

SpecNamespaces == InitNamespaces /\ [][NextNamespaces]_vars

SpecNamespacesSeq == InitNamespaces /\ [][NextNamespacesSeq]_vars

InitNames ==
    /\ NamesInit
    /\ ResourcesQuiet
    /\ NamespacesQuiet
    /\ CrdsQuiet
    /\ LogsQuiet
    /\ TerminalQuiet
    /\ GetLogsQuiet
    /\ CopyQuiet
    /\ RegistryQuiet
    /\ FrameQuiet
    /\ KeepAliveQuiet
    /\ RssQuiet

SpecNames == InitNames /\ [][NextNames]_vars

InitResources ==
    /\ ResourcesInit
    /\ NamesQuiet
    /\ NamespacesQuiet
    /\ CrdsQuiet
    /\ LogsQuiet
    /\ TerminalQuiet
    /\ GetLogsQuiet
    /\ CopyQuiet
    /\ RegistryQuiet
    /\ FrameQuiet
    /\ KeepAliveQuiet
    /\ RssQuiet

SpecResources == InitResources /\ [][NextResources]_vars

InitGetLogs ==
    /\ GetLogsInit
    /\ NamesQuiet
    /\ ResourcesQuiet
    /\ NamespacesQuiet
    /\ CrdsQuiet
    /\ LogsQuiet
    /\ TerminalQuiet
    /\ CopyQuiet
    /\ RegistryQuiet
    /\ FrameQuiet
    /\ KeepAliveQuiet
    /\ RssQuiet

SpecGetLogs == InitGetLogs /\ [][NextGetLogs]_vars

InitCopy ==
    /\ CopyInit
    /\ GetLogsQuiet
    /\ NamesQuiet
    /\ ResourcesQuiet
    /\ NamespacesQuiet
    /\ CrdsQuiet
    /\ LogsQuiet
    /\ TerminalQuiet
    /\ RegistryQuiet
    /\ FrameQuiet
    /\ KeepAliveQuiet
    /\ RssQuiet

SpecCopy == InitCopy /\ [][NextCopy]_vars

InitRegistry ==
    /\ RegistryInit
    /\ CopyQuiet
    /\ GetLogsQuiet
    /\ NamesQuiet
    /\ ResourcesQuiet
    /\ NamespacesQuiet
    /\ CrdsQuiet
    /\ LogsQuiet
    /\ TerminalQuiet
    /\ FrameQuiet
    /\ KeepAliveQuiet
    /\ RssQuiet

SpecRegistry == InitRegistry /\ [][NextRegistry]_vars

InitFrame ==
    /\ FrameInit
    /\ RegistryQuiet
    /\ CopyQuiet
    /\ GetLogsQuiet
    /\ NamesQuiet
    /\ ResourcesQuiet
    /\ NamespacesQuiet
    /\ CrdsQuiet
    /\ LogsQuiet
    /\ TerminalQuiet
    /\ KeepAliveQuiet
    /\ RssQuiet

SpecFrame == InitFrame /\ [][NextFrame]_vars

InitKeepAlive ==
    /\ KeepAliveInit
    /\ FrameQuiet
    /\ RegistryQuiet
    /\ CopyQuiet
    /\ GetLogsQuiet
    /\ NamesQuiet
    /\ ResourcesQuiet
    /\ NamespacesQuiet
    /\ CrdsQuiet
    /\ LogsQuiet
    /\ TerminalQuiet
    /\ RssQuiet

\* the write and the flush of a newline return, and a select whose receive
\* stays ready takes it
SpecKeepAlive ==
    /\ InitKeepAlive
    /\ [][NextKeepAlive]_vars
    /\ \A r \in RequestIds :
          WF_vars(KeepAliveWrites(r)) /\ WF_vars(DoneReceived(r))

InitRss ==
    /\ GetFeedInit
    /\ KeepAliveQuiet
    /\ FrameQuiet
    /\ RegistryQuiet
    /\ CopyQuiet
    /\ GetLogsQuiet
    /\ NamesQuiet
    /\ ResourcesQuiet
    /\ NamespacesQuiet
    /\ CrdsQuiet
    /\ LogsQuiet
    /\ TerminalQuiet

SpecRss == InitRss /\ [][NextRss]_vars

(***************************************************************************)
(* Claims about the namespace cache.                                       *)
(***************************************************************************)
Done(p) == calls[p].pc = "done"

\* the freshness rule as the specification words it: now - lastFetch < ttl
FreshAtCall(p) == calls[p].t0 - calls[p].lastFetch0 < calls[p].cacheDuration

\* every caller was invoked on a stale cache, before any of them had called
\* the API server, and every one has returned a list
StaleBurst ==
    /\ \A p \in Callers : Done(p) /\ calls[p].err = None /\ ~FreshAtCall(p)
    /\ \A p, q \in Callers : calls[p].callsBefore = calls[q].callsBefore

\* C1: N callers that invoke GetNamespaces concurrently on a stale cache cause
\* exactly one upstream namespace-list call in total, and all of them receive
\* the same refreshed list.
C1_OneUpstreamCallPerBurst ==
    StaleBurst =>
        /\ \A p \in Callers : upstreamCalls = calls[p].callsBefore + 1
        /\ \A p, q \in Callers : calls[p].result = calls[q].result

\* C2: no caller observes a torn cache entry: the lastFetch a caller tested and
\* the cached list it returned come from the same upstream fetch (stated for
\* the callers whose two reads each yielded an intact value).
C2_NoTornCacheEntry ==
    \A p \in Callers :
        (/\ Done(p) /\ calls[p].err = None /\ calls[p].fetch = 0
         /\ calls[p].checkedFrom >= 0 /\ calls[p].resultFrom >= 0)
            => calls[p].resultFrom = calls[p].checkedFrom

\* C3: a call made while now - lastFetch < ttl (its own ttl) makes no upstream
\* call and returns exactly the list stored by the last successful refresh.
C3_FreshCallServedFromCache ==
    \A p \in Callers :
        (Done(p) /\ FreshAtCall(p)) =>
            /\ upstreamCalls = calls[p].callsBefore
            /\ calls[p].err = None
            /\ served # <<>>
            /\ calls[p].result = Last(served)

\* a fresh call has returned a cached list that the API server no longer holds
C3_Witness ==
    \E p \in Callers :
        /\ Done(p) /\ FreshAtCall(p)
        /\ calls[p].result # <<>>
        /\ calls[p].result # upstreamNamespaces
        /\ calls[p].t0 > StartTime

\* C4: a single call made while now - lastFetch >= ttl (equality, ttl = 0 and
\* the never-fetched cache included) makes exactly one upstream call and, when
\* that call succeeds, replaces the cached list by the fresh one, sets lastFetch
\* to the time of the refresh and returns the fresh list.
C4_StaleCallRefreshes ==
    \A p \in Callers :
        (Done(p) /\ ~FreshAtCall(p)) =>
            /\ upstreamCalls = calls[p].callsBefore + 1
            /\ calls[p].err = None =>
                /\ calls[p].fetch = Len(served)
                /\ calls[p].result = Last(served)
                /\ cache.namespaces = calls[p].result
                /\ cache.namespacesLastFetch = calls[p].tReturn
                /\ cache.namespacesLastFetch >= calls[p].t0

\* a second refresh, made exactly when the entry expires
C4_Witness ==
    \E p \in Callers :
        /\ Done(p) /\ calls[p].err = None
        /\ calls[p].cacheDuration > 0
        /\ calls[p].t0 - calls[p].lastFetch0 = calls[p].cacheDuration
        /\ Len(served) = 2
        /\ served[1] # served[2]
        /\ cache.namespaces = served[2]

(***************************************************************************)
(* Claims about CRD discovery.                                             *)
(***************************************************************************)
Succeeded == load.pc \in {"loop", "store", "done"}

\* C5: discovery succeeds at most once: a failed attempt (fetch or decoding) is
\* followed by a sleep and the sleep by another attempt, the task never gives
\* up, after the successful attempt it makes no further attempt and terminates,
\* and if the API server answers from some time on, discovery completes.
C5_DiscoveryRetriesUntilSuccess ==
    /\ [][/\ (load.pc = "fetch" /\ crdUpstream # "ok" /\ load'.pc # "fetch")
                => load'.pc = "sleep"
          /\ (load.pc = "sleep" /\ load'.pc # "sleep") => load'.pc = "fetch"
          /\ (load'.pc = "done" /\ load.pc # "done") => load.pc = "loop"
          /\ Succeeded => Succeeded'
          /\ load.pc = "done" => (load' = load /\ crds' = crds)]_vars
    /\ [](load.pc \in {"fetch", "sleep"} => ENABLED LoadStep)
    /\ (<>[](crdUpstream = "ok")) => <>(load.pc = "done")

\* discovery has completed after two failed attempts
C5_Witness ==
    /\ load.pc = "done"
    /\ load.offset = Word(120)
    /\ Len(crds) = 3

\* C6: every read of the CRD list through GetCRDs is synchronized with the
\* appends of loadCRDs: no GetCRDs reads c.crds while a store into it is under way.
C6_ReadsSynchronized ==
    \A r \in Readers : reads[r].pc = "done" => ~reads[r].raced

(***************************************************************************)
(* Claims about StreamLogs.                                                *)
(***************************************************************************)
RECURSIVE SplitEach(_)
SplitEach(parts) ==
    IF parts = <<>> THEN <<>> ELSE Split(parts[1], CR) \o SplitEach(Tail(parts))

StripCR(l) == IF Len(l) > 0 /\ l[Len(l)] = CR THEN SubSeq(l, 1, Len(l) - 1) ELSE l

\* the line-split of a byte sequence read whole: the newline-terminated lines
\* without their "\n" or "\r\n", then what follows the last newline if it is
\* not empty, each split again on carriage return
LineSplit(bytes) ==
    LET parts == Split(bytes, LF)
        n == Len(parts)
        terminated == [i \in 1..(n - 1) |-> StripCR(parts[i])]
    IN SplitEach(IF parts[n] = <<>> THEN terminated ELSE Append(terminated, parts[n]))

IsPrefixOf(a, b) == Len(a) <= Len(b) /\ SubSeq(b, 1, Len(a)) = a

\* C7: for every log and every partition of it into read chunks, the messages
\* StreamLogs has written when the stream ends equal the line-split of the whole
\* log, a last line without terminator included.
C7_WritesTheLineSplit ==
    (sl.pc = "returned" /\ sl.err = EOF) => written = LineSplit(log)

\* what the stream has delivered for good: all of the log while the stream is
\* alive, the bytes read so far once it has ended or failed
Delivered == IF stream.err = None THEN log ELSE SubSeq(log, 1, stream.pos)

\* C8: StreamLogs writes only complete logical lines, in stream order: at any
\* time the messages written are the first lines of the line-split of the log.
C8_CompleteLinesInOrder == IsPrefixOf(written, LineSplit(Delivered))

\* a line longer than the read buffer was reassembled and written after
\* another line, and the call is still running
C8_Witness ==
    /\ sl.pc = "read"
    /\ Len(written) >= 2
    /\ Len(written[Len(written)]) > BufSize
    /\ stream.pos < Len(log)

\* C9: on every return of StreamLogs after the stream was opened the stream
\* has been closed exactly once, not before the return; when opening fails
\* nothing is opened and nothing is closed.
C9_StreamClosedExactlyOnce ==
    /\ (sl.pc = "returned" /\ sl.err # OpenFailed)
            => (stream.state = "closed" /\ stream.closes = 1)
    /\ (sl.pc = "returned" /\ sl.err = OpenFailed)
            => (stream.state = "unopened" /\ stream.closes = 0)
    /\ sl.pc # "returned" => stream.closes = 0

\* a return on a failed WriteMessage, after some lines were written
C9_Witness ==
    /\ sl.pc = "returned" /\ sl.err = WriteFailed
    /\ written # <<>>
    /\ stream.closes = 1

(***************************************************************************)
(* Claims about the sessions.                                              *)
(***************************************************************************)
\* C10: if the caller cancels an in-flight log stream or terminal session, the
\* upstream log or exec stream is eventually closed and the session's task
\* returns.
C10_CancelledSessionsEnd ==
    /\ (ctx = "canceled") ~> (sl.pc = "returned" /\ stream.state # "open")
    /\ (termConn = "gone") ~> (term.pc = "returned" /\ term.exec # "open")

\* both sessions were cancelled while attached and both have ended
C10_Witness ==
    /\ ctx = "canceled" /\ sl.pc = "returned" /\ sl.err = Canceled
    /\ stream.state = "closed" /\ written # <<>>
    /\ termConn = "gone" /\ term.pc = "returned" /\ term.exec = "closed"

(***************************************************************************)
(* Claims about GetTerminal.                                               *)
(***************************************************************************)
\* terminal.StartProcess was called: it opened the exec stream or failed to
StartedProcess == term.exec # "unopened" \/ term.err = ExecFailed

\* C11: GetTerminal called with a shell that is not on the allow-list returns an
\* error without starting the exec process, and the exec session is started
\* only after the shell passed validation.
C11_InvalidShellOpensNothing ==
    /\ (~IsValidShell(term.shell) /\ term.pc = "returned")
            => (term.err \in {ParseFailed, InvalidShell} /\ term.exec = "unopened")
    /\ StartedProcess => IsValidShell(term.shell)

\* a call with a shell off the list was rejected by the validation
C11_Witness ==
    /\ term.shell = "bash; rm -rf /"
    /\ term.pc = "returned" /\ term.err = InvalidShell
    /\ term.exec = "unopened"

(***************************************************************************)
(* Claims about the CRD list.                                              *)
(***************************************************************************)
\* no attempt of loadCRDs has fetched and decoded the definitions yet
NotYetSucceeded == load.pc \in {"fetch", "sleep"}

\* C12: while CRD discovery has not yet succeeded, the list is empty and every
\* GetCRDs returns the empty list (GetCRDs has no error to return): a failed
\* attempt, fetch or decoding, appends nothing.
C12_EmptyUntilDiscoverySucceeds ==
    NotYetSucceeded =>
        /\ crds = <<>>
        /\ \A r \in Readers : reads[r].pc = "done" => reads[r].result = <<>>

\* after a failed fetch and a failed decoding a GetCRDs has returned
C12_Witness ==
    /\ load.pc = "sleep" /\ load.offset = Double(Word(InitialOffset))
    /\ crdUpstream = "garbage"
    /\ crdList # <<>>
    /\ \E r \in Readers : reads[r].pc = "done"

RECURSIVE SumOfVersions(_)
SumOfVersions(items) ==
    IF items = <<>> THEN 0
    ELSE Len(items[1].versions) + SumOfVersions(Tail(items))

\* C14: after a successful discovery over N definitions with version counts
\* v_1..v_N the list has exactly v_1 + ... + v_N entries; a definition with no
\* versions contributes none.
C14_OneEntryPerVersion ==
    load.pc = "done" => Len(crds) = SumOfVersions(crdList)

\* discovery over a definition with two versions and one with none has ended
C14_Witness ==
    /\ load.pc = "done"
    /\ Len(crdList) = 2
    /\ crdList[1].versions = <<>>
    /\ Len(crdList[2].versions) = 2
    /\ Len(crds) = 2

\* the entry the claim describes for one served version of one definition
ExpectedColumn(column) ==
    [Description |-> column.description, JSONPath |-> column.jsonPath,
     Name |-> column.name, Type |-> column.type]

ExpectedEntry(definition, version) ==
    [Path |-> definition.group \o "/" \o version.name,
     Resource |-> definition.plural,
     Title |-> definition.kind,
     Description |-> IF version.schema = NoSchema THEN "" ELSE version.schema,
     Scope |-> definition.scope,
     Columns |-> [k \in 1..Len(version.additionalPrinterColumns) |->
                    ExpectedColumn(version.additionalPrinterColumns[k])]]

IsServed(version) == version.served

RECURSIVE ExpectedList(_)
ExpectedList(items) ==
    IF items = <<>> THEN <<>>
    ELSE LET servedVersions == SelectSeq(items[1].versions, IsServed)
         IN [j \in 1..Len(servedVersions) |->
                ExpectedEntry(items[1], servedVersions[j])]
            \o ExpectedList(Tail(items))

\* C15: discovery produces one entry per served version of each definition, in
\* definition order and then version order, with path = group/version,
\* resource = plural, title = kind, description = the version's schema
\* description or empty, scope copied and the printer columns copied in order.
C15_EntriesFlattenDefinitions ==
    load.pc = "done" => crds = ExpectedList(crdList)

(***************************************************************************)
(* Claims about the name of a cluster.                                     *)
(***************************************************************************)
Created == newCluster.pc = "returned" /\ newCluster.err = None

\* C16: name normalization is idempotent: normalizing the name of a cluster
\* NewCluster has returned yields that name again.
C16_NormalizationIdempotent ==
    Created => Slugify(newCluster.name) = newCluster.name

\* a name with separators at both ends and a run inside was normalized
C16_Witness ==
    /\ Created
    /\ newCluster.input = <<"-", "B", "_", "_">>
    /\ newCluster.name = <<"b">>

LowerAlphanumerics == {"a", "b", "7"}

\* the maximal runs of alphanumerics of s, in order
RECURSIVE AlphanumericRuns(_, _)
AlphanumericRuns(s, run) ==
    IF s = <<>> THEN (IF run = <<>> THEN <<>> ELSE <<run>>)
    ELSE IF s[1] \in LowerAlphanumerics
         THEN AlphanumericRuns(Tail(s), Append(run, s[1]))
    ELSE (IF run = <<>> THEN <<>> ELSE <<run>>) \o AlphanumericRuns(Tail(s), <<>>)

RECURSIVE JoinWithSeparator(_)
JoinWithSeparator(runs) ==
    IF runs = <<>> THEN <<>>
    ELSE IF Len(runs) = 1 THEN runs[1]
    ELSE runs[1] \o <<"-">> \o JoinWithSeparator(Tail(runs))

\* C17: the name of the cluster NewCluster returns consists of a-z, digits and
\* '-' only, neither starts nor ends with '-', has no two '-' in a row, and is
\* the alphanumeric runs of the lower-cased input with one '-' for each run of
\* other characters between two of them.
C17_NameIsSlug ==
    Created =>
        LET name == newCluster.name IN
        /\ \A i \in 1..Len(name) : name[i] \in LowerAlphanumerics \cup {"-"}
        /\ name # <<>> => (name[1] # "-" /\ name[Len(name)] # "-")
        /\ \A i \in 1..(Len(name) - 1) : ~(name[i] = "-" /\ name[i + 1] = "-")
        /\ name = JoinWithSeparator(AlphanumericRuns(ToLower(newCluster.input), <<>>))

\* an upper-case letter, then a run of two other characters, then a digit
C17_Witness ==
    /\ Created
    /\ newCluster.input = <<"B", "_", "É", "7">>
    /\ newCluster.name = <<"b", "-", "7">>

(***************************************************************************)
(* Claims about the resource operations.                                   *)
(***************************************************************************)
\* C18: GetResources issues one namespaced get of one object when name and
\* namespace are set, one cluster-scoped get of one object when only name is
\* set, and one list request in the namespace with the one query parameter
\* paramName = param when name is empty; the bytes of the answer are returned.
C18_GetResourcesDispatch ==
    resCall.op = "GetResources" =>
        LET a == resCall.args
            r == resCall.requests[1]
        IN  /\ Len(resCall.requests) = 1
            /\ r.verb = "GET" /\ r.absPath = a.path /\ r.resource = a.resource
            /\ (a.name # "" /\ a.namespace # "")
                    => (r.name = a.name /\ r.namespace = a.namespace
                        /\ r.params = <<>>)
            /\ (a.name # "" /\ a.namespace = "")
                    => (r.name = a.name /\ r.namespace = NotSet
                        /\ r.params = <<>>)
            /\ a.name = ""
                    => (r.name = NotSet /\ r.namespace = a.namespace
                        /\ r.params = <<<<a.paramName, a.param>>>>)
            /\ resCall.answer.err = None => resCall.res = resCall.answer.body

\* a list with a label selector has returned the bytes of the answer
C18_Witness ==
    /\ resCall.op = "GetResources"
    /\ resCall.args.name = "" /\ resCall.args.namespace = "default"
    /\ resCall.requests[1].params = <<<<"labelSelector", "app=nginx">>>>
    /\ resCall.res = "{\"items\":[]}"

\* C19: CreateResource sends a PUT to the subresource of the named object
\* exactly when name and subResource are both non-empty and a POST in every
\* other case; one request per call.
C19_CreateOrUpdate ==
    resCall.op = "CreateResource" =>
        LET a == resCall.args
            r == resCall.requests[1]
        IN  /\ Len(resCall.requests) = 1
            /\ r.verb \in {"PUT", "POST"}
            /\ r.verb = "PUT" <=> (a.name # "" /\ a.subResource # "")
            /\ r.verb = "PUT" => (r.name = a.name /\ r.subResource = a.subResource)
            /\ r.verb = "POST" => r.name = NotSet
            /\ r.absPath = a.path /\ r.resource = a.resource /\ r.body = a.body

\* a call with a name but no subResource has sent a POST
C19_Witness ==
    /\ resCall.op = "CreateResource"
    /\ resCall.args.name = "nginx" /\ resCall.args.subResource = ""
    /\ resCall.requests[1].verb = "POST"
    /\ resCall.err = None

\* C20: each call of GetResources, DeleteResource, PatchResource or
\* CreateResource sends exactly one request and returns what the API server
\* returned: on failure the same error and no data, on success no error and,
\* for GetResources, the bytes of the answer unchanged.
C20_ForwardedOnceUnmodified ==
    /\ [][upstreamRequests' = upstreamRequests + 1
            /\ Len(resCall'.requests) = 1]_vars
    /\ [](resCall.op # "none" =>
            /\ resCall.answer.err # None
                    => (resCall.err = resCall.answer.err /\ resCall.res = Nil)
            /\ resCall.answer.err = None
                    => /\ resCall.err = None
                       /\ resCall.op = "GetResources"
                            => resCall.res = resCall.answer.body)

\* a DeleteResource, the second call, has returned the error of the API server,
\* which came with a body
C20_Witness ==
    /\ resCall.op = "DeleteResource"
    /\ upstreamRequests = 2
    /\ resCall.answer.body # Nil
    /\ resCall.err = "not found"

(***************************************************************************)
(* Claims about GetLogs.                                                   *)
(***************************************************************************)
\* C21: GetLogs called with a non-empty regex that does not compile returns an
\* error and no log text, never the unfiltered logs.
C21_BadRegexIsAnError ==
    (getLogs.pc = "returned" /\ getLogs.regex # "" /\ ~Compiles(getLogs.regex))
        => (getLogs.err # None /\ getLogs.res = <<>>)

\* the logs were fetched and the regex then failed to compile
C21_Witness ==
    /\ getLogs.pc = "returned"
    /\ getLogs.regex = "(" /\ getLogs.payload = <<"a", LF, "b">>
    /\ getLogs.err = CompileFailed

\* the lines of the payload that the claim says are kept
KeptLines ==
    LET lines == Split(getLogs.payload, LF)
    IN IF getLogs.regex = "" THEN lines
       ELSE SelectSeq(lines, LAMBDA line : MatchString(getLogs.regex, line))

RECURSIVE EachTerminated(_)
EachTerminated(lines) ==
    IF lines = <<>> THEN <<>>
    ELSE lines[1] \o <<LF, CR>> \o EachTerminated(Tail(lines))

\* C22: GetLogs returns the kept lines in their order, each followed by one
\* line terminator and nothing else: all lines of the payload when regex is
\* empty, the lines matching the regex otherwise, the empty text when no line
\* is kept.
C22_KeptLinesEachTerminated ==
    (getLogs.pc = "returned" /\ getLogs.err = None)
        => getLogs.res = EachTerminated(KeptLines)

(***************************************************************************)
(* Claims about the file transfer.                                         *)
(***************************************************************************)
Copied == copyCall.pc = "returned" /\ copyCall.err # ParseFailed

\* C23: for every path p CopyFileFromPod requests the exec of exactly
\* (tar, cf, -, p) and CopyFileToPod that of exactly (cp, /dev/stdin, p), both
\* without TTY: the path is one argument and changes nothing else.
C23_PathIsOneArgument ==
    Copied =>
        /\ copyCall.exec.tty = <<"false">>
        /\ copyCall.exec.stdin = <<"true">>
        /\ copyCall.exec.container = <<"app">>
        /\ copyCall.op = "CopyFileFromPod"
            => copyCall.exec.command =
                    <<<<"tar">>, <<"cf">>, <<"-">>, copyCall.path>>
        /\ copyCall.op = "CopyFileToPod"
            => copyCall.exec.command =
                    <<<<"cp">>, <<"/dev/stdin">>, copyCall.path>>

(***************************************************************************)
(* Claims about the registry.                                              *)
(***************************************************************************)
\* the entries of the configuration NewCluster has been called for
Tried == registry.i - 1 + (IF registry.pc = "failed" THEN 1 ELSE 0)

ValidTried ==
    Cardinality({k \in 1..Tried : registry.config[k].valid})

\* C24: a cluster whose construction fails never becomes usable: NewCluster
\* returns an error, no cluster and starts no discovery task, the load of the
\* registry fails as a whole and the process does not serve; a cluster that is
\* constructed has exactly one discovery task.
C24_FailedClusterNeverUsable ==
    /\ registry.last.err # None
            => (registry.last.cluster = None /\ registry.last.started = 0)
    /\ registry.last.err = None /\ registry.last.cluster # None
            => registry.last.started = 1
    /\ tasksStarted = ValidTried
    /\ (\E k \in 1..Tried : ~registry.config[k].valid)
            => (registry.pc = "failed" /\ registry.clusters = <<>>
                /\ process # "serving")
    /\ process = "serving"
            => (registry.pc = "loaded"
                /\ Len(registry.clusters) = Len(registry.config)
                /\ tasksStarted = Len(registry.clusters))

\* two clusters were built, the third could not be: the process has exited
C24_Witness ==
    /\ Len(registry.config) = 3
    /\ registry.pc = "failed" /\ registry.err = ClientsetFailed
    /\ registry.i = 3
    /\ tasksStarted = 2
    /\ process = "exited"

FailedCall(p) == Done(p) /\ calls[p].err = ListError

\* C26: when the upstream call of GetNamespaces fails, the call returns the
\* error and no list and leaves the cached list and lastFetch as they were, so
\* the cache the next call tests is the one this call tested.
C26_FailedListLeavesCache ==
    /\ [][\A p \in Callers :
            ListFails(p) => (cache' = cache /\ cacheFrom' = cacheFrom)]_vars
    /\ [](\A p \in Callers :
            FailedCall(p) =>
                /\ calls[p].result = <<>>
                /\ upstreamCalls = calls[p].callsBefore + 1
                /\ cache.namespacesLastFetch = calls[p].lastFetch0)

\* a list was cached by an earlier call; a later call found it stale and failed
C26_Witness ==
    \E p \in Callers :
        /\ FailedCall(p)
        /\ cache.namespaces # <<>>
        /\ calls[p].lastFetch0 > ZeroTime
        /\ upstreamCalls = 2

(***************************************************************************)
(* Claims about the backoff of loadCRDs.                                   *)
(***************************************************************************)
\* a number of any size, as sixteen bytes
Wide(w) == [i \in 1..16 |-> IF i <= Len(w) THEN w[i] ELSE 0]

Low(wide) == [i \in 1..8 |-> wide[i]]

\* the number is a positive 64-bit integer
FitsPositive(wide) ==
    /\ \A i \in 9..16 : wide[i] = 0
    /\ wide[8] < 128
    /\ \E i \in 1..8 : wide[i] # 0

\* the delay 30 * 2^(k-1) seconds was slept as it is: the offset and the
\* nanoseconds computed from it are that number, not wrapped
RECURSIVE SleepsExactly(_, _)
SleepsExactly(k, seconds) ==
    IF k > MaxAttempts THEN FALSE
    ELSE IF Low(seconds) = load.offset
         THEN LET nanoseconds == Mul(Mul(Mul(seconds, 1000), 1000), 1000)
              IN /\ FitsPositive(seconds)
                 /\ FitsPositive(nanoseconds)
                 /\ SleepDuration(load.offset) = Low(nanoseconds)
    ELSE SleepsExactly(k + 1, Mul(seconds, 2))

\* C27: the delay slept after the k-th consecutive failed attempt is
\* 30 * 2^(k-1) seconds for every k >= 1, positive and larger than the one
\* before, with no wrap-around of the offset or of the nanoseconds.
C27_BackoffNeverWraps ==
    load.pc = "sleep" => SleepsExactly(1, Wide(Word(InitialOffset)))

(***************************************************************************)
(* Claims about what the operations leave alone.                           *)
(***************************************************************************)
Forwarding ==
    {"GetResources", "DeleteResource", "PatchResource", "CreateResource",
     "GetLogs", "StreamLogs"}

\* C28: GetResources, DeleteResource, PatchResource, CreateResource, GetLogs
\* and StreamLogs leave the name, the CRD list and the namespace cache of the
\* cluster as they were, whether they succeed or fail, and an operation on one
\* cluster leaves the CRD list and the namespace cache of every other cluster
\* as they were.
C28_OperationsLeaveClusters ==
    [][opCall'.n # opCall.n =>
          /\ opCall'.operation \in Forwarding => clusters' = clusters
          /\ \A d \in ClusterIds \ {opCall'.cluster} :
                /\ clusters'[d].crds = clusters[d].crds
                /\ clusters'[d].cache = clusters[d].cache]_vars

C28_Witness ==
    /\ opCall.operation \in Forwarding
    /\ opCall.failed
    /\ clusters[opCall.cluster].crds # <<>>
    /\ clusters[opCall.cluster].cache # Cache
    /\ \E d \in ClusterIds :
          /\ clusters[d].crds # clusters[opCall.cluster].crds
          /\ clusters[d].cache # clusters[opCall.cluster].cache

(***************************************************************************)
(* Claims about the keep-alive goroutine of the ClickHouse handlers.       *)
(***************************************************************************)
\* the handler went past its checks: it left them without rendering one of
\* their errors
PassedValidation(r) ==
    /\ handlers[r].pc # "validate"
    /\ \A k \in 1..Len(responses[r]) :
          responses[r][k].bytes \notin Rejections(handlers[r].kind)

\* one goroutine for a request that passed validation, none for another;
\* where the handler has returned the goroutine has too, and every newline
\* was written before the handler returned
KeepAliveInStep(r) ==
    /\ keepAlives[r].started = (IF PassedValidation(r) THEN 1 ELSE 0)
    /\ handlers[r].pc = "returned" /\ keepAlives[r].started = 1
          => keepAlives[r].pc = "returned"
    /\ \A k \in 1..Len(responses[r]) :
          responses[r][k].bytes = "\n" => ~responses[r][k].returned

\* C29: in getLogs and getAggregation every request that passes validation
\* starts exactly one keep-alive goroutine, and on every return path the
\* deferred send on done is received: the handler does not block forever, the
\* goroutine terminates, and no newline is written to the response after the
\* handler has returned.
C29_KeepAliveEndsWithHandler ==
    /\ [](\A r \in RequestIds : KeepAliveInStep(r))
    /\ \A r \in RequestIds :
          handlers[r].pc = "deferred"
              ~> (handlers[r].pc = "returned" /\ keepAlives[r].pc = "returned")

C29_Witness ==
    \E r \in RequestIds :
        /\ handlers[r].pc = "returned"
        /\ keepAlives[r].started = 1
        /\ keepAlives[r].pc = "returned"
        /\ \E k \in 1..Len(responses[r]) : responses[r][k].bytes = "\n"
        /\ \E k \in 1..Len(responses[r]) :
              responses[r][k].bytes = QueryError(handlers[r].kind)

(***************************************************************************)
(* Claims about the RSS handler.                                           *)
(***************************************************************************)
\* the goroutines whose url parsed
ParsedBy == {k \in 1..Len(getFeed.urls) : parsers[k].feed # NoFeed}

\* the feeds of the list are those parsed, each once
ExactlyParsed(list) ==
    /\ Len(list) = Cardinality(ParsedBy)
    /\ \A k \in ParsedBy : \E n \in 1..Len(list) : list[n] = parsers[k].feed

AllFinished == \A k \in 1..Len(getFeed.urls) : parsers[k].pc = "returned"

\* C30: the feeds handed to Transform are exactly the feeds that parsed, one
\* per url that parsed, none lost or duplicated under any interleaving of the
\* goroutines, and Transform is called only after every goroutine finished.
C30_TransformGetsEveryFeed ==
    getFeed.pc = "returned"
        => AllFinished /\ ExactlyParsed(getFeed.transformed)

====
